---- MODULE Spec2Model ----
(***************************************************************************)
(* tslox: a tree-walking interpreter for a small Lox-family language.      *)
(* The model follows the pipeline of main(): Lexer.lex, Parser.parse,      *)
(* Resolver.resolve, TSLoxInterpreter.interpret.  A source text is a       *)
(* sequence of one-character strings; tokens, AST nodes and runtime values *)
(* are records; environments, functions, classes and instances live in     *)
(* heaps indexed by small integers (object identity).                      *)
(***************************************************************************)
EXTENDS Integers, Sequences, FiniteSets, TLC

VARIABLES
    argv,         \* process.argv
    source,       \* the script text (scriptFileContent), a sequence of characters
    pc,           \* position of main(): main, lex, lexComment, parse, resolve, interpret, done,
                  \* crashed
    start,        \* Lexer.start
    current,      \* Lexer.current
    row,          \* Lexer.row
    col,          \* Lexer.col
    tokens,       \* Lexer.tokens, then Parser.tokens
    reported,     \* what ErrorReporter.report received, in order (stderr)
    pcur,         \* Parser.current
    hasError,     \* Parser._hasError
    statements,   \* the statements parse() has collected
    bindings,     \* Resolver.bindings: reference node -> hops
    heap,         \* the evaluator's objects: environments, functions, classes, instances,
                  \* the currentEnvironment register, stdout and the evaluation trace
    stmtIndex,    \* index of the next top-level statement of interpret()
    uncaught,     \* the exception that escaped main(), if any
    resolutions,  \* what Resolver.resolveBinding looked up, in order, with the scope stack
    scopes,       \* what resolve() did to the scope stack, and the stack it left
    exitCode      \* the exit status of the process, -1 while it runs

vars == <<argv, source, pc, start, current, row, col, tokens, reported, pcur, hasError,
          statements, bindings, heap, stmtIndex, uncaught, resolutions, scopes, exitCode>>

\* With([x \in {e} |-> body]): the value of body with x bound to the value of e
With(f) == f[CHOOSE x \in DOMAIN f : TRUE]

(***************************************************************************)
(* Characters                                                              *)
(***************************************************************************)
Digits == {"0", "1", "2", "3", "4", "5", "6", "7", "8", "9"}

Letters ==
    {"a", "b", "c", "d", "e", "f", "g", "h", "i", "j", "k", "l", "m", "n", "o", "p", "q", "r",
     "s", "t", "u", "v", "w", "x", "y", "z", "A", "B", "C", "D", "E", "F", "G", "H", "I", "J",
     "K", "L", "M", "N", "O", "P", "Q", "R", "S", "T", "U", "V", "W", "X", "Y", "Z"}

\* /\d/.test(c)
Lexer_isDigit(c) == c \in Digits

\* /[_a-zA-Z0-9]/.test(c)
Lexer_isAlphaNumeric(c) == c \in Letters \cup Digits \cup {"_"}

DigitValue(c) ==
    CASE c = "0" -> 0 [] c = "1" -> 1 [] c = "2" -> 2 [] c = "3" -> 3 [] c = "4" -> 4
      [] c = "5" -> 5 [] c = "6" -> 6 [] c = "7" -> 7 [] c = "8" -> 8 [] c = "9" -> 9

RECURSIVE ParseIntFrom(_, _, _)
\* parseInt: the value of the longest prefix of decimal digits; what follows is ignored
ParseIntFrom(s, i, acc) ==
    IF i > Len(s) \/ ~Lexer_isDigit(s[i]) THEN acc
    ELSE ParseIntFrom(s, i + 1, acc * 10 + DigitValue(s[i]))

parseInt(s) == ParseIntFrom(s, 1, 0)

(***************************************************************************)
(* Tokens                                                                  *)
(***************************************************************************)
\* the reserved words: RESERVED_KEYWORDS is keyed by the TokenType enum VALUES, so the
\* keys of TRUE and FALSE are the upper-case texts, and constructor maps to IDENTIFIER
RESERVED_KEYWORDS ==
    (<<"f","o","r">> :> "for") @@
    (<<"T","R","U","E">> :> "TRUE") @@
    (<<"F","A","L","S","E">> :> "FALSE") @@
    (<<"n","o","n","e">> :> "none") @@
    (<<"l","e","t">> :> "let") @@
    (<<"i","f">> :> "if") @@
    (<<"e","l","s","e">> :> "else") @@
    (<<"w","h","i","l","e">> :> "while") @@
    (<<"f","u","n","c","t","i","o","n">> :> "function") @@
    (<<"r","e","t","u","r","n">> :> "return") @@
    (<<"c","l","a","s","s">> :> "class") @@
    (<<"n","e","w">> :> "new") @@
    (<<"t","h","i","s">> :> "this") @@
    (<<"e","x","t","e","n","d","s">> :> "extends") @@
    (<<"c","o","n","s","t","r","u","c","t","o","r">> :> "identifier") @@
    (<<"s","u","p","e","r">> :> "super")

\* TokenType.THIS used as a variable name (Environment key)
THIS == <<"t","h","i","s">>

CONSTRUCTOR == <<"c","o","n","s","t","r","u","c","t","o","r">>

(***************************************************************************)
(* Lexer                                                                   *)
(***************************************************************************)
\* String.charAt: the empty string outside the text
charAt(i) == IF i >= 0 /\ i < Len(source) THEN source[i + 1] ELSE ""

\* String.substring(from, to), 0-based, to exclusive
substring(from, to) ==
    LET a == IF from < 0 THEN 0 ELSE IF from > Len(source) THEN Len(source) ELSE from
        b == IF to < 0 THEN 0 ELSE IF to > Len(source) THEN Len(source) ELSE to
        lo == IF a <= b THEN a ELSE b
        hi == IF a <= b THEN b ELSE a
    IN  [k \in 1..(hi - lo) |-> source[lo + k]]

\* the lexer's fields as one record
LexerState ==
    [start |-> start, current |-> current, row |-> row, col |-> col,
     tokens |-> tokens, reported |-> reported]

Lexer_peek(L) == charAt(L.current)

Lexer_peekNext(L) == IF L.current < Len(source) THEN charAt(L.current + 1) ELSE ""

Lexer_advance(L) == [L EXCEPT !.col = @ + 1, !.current = @ + 1]

Lexer_curLocation(L) == [row |-> L.row, col |-> L.col]

Lexer_isEOF(L) == L.current >= Len(source)

Lexer_addToken(L, token) == [L EXCEPT !.tokens = Append(@, token)]

\* match(c): whether the next character is c (it is then consumed by Lexer_advance)
Lexer_match(L, c) == ~Lexer_isEOF(L) /\ Lexer_peek(L) = c

\* new TSLoxError(type, location, message); detail is the interpolated part
TSLoxError(type, location, message, detail) ==
    [type |-> type, location |-> location, message |-> message, detail |-> detail]

report(L, error) == [L EXCEPT !.reported = Append(@, error)]

\* an operator or punctuation token located at curLocation
Lexer_simple(L, type) == Lexer_addToken(L, [type |-> type, location |-> Lexer_curLocation(L)])

RECURSIVE Lexer_skipLine(_)
\* while (this.peek() !== '\n' && !this.isEOF()) this.advance();
Lexer_skipLine(L) ==
    IF Lexer_peek(L) # "\n" /\ ~Lexer_isEOF(L) THEN Lexer_skipLine(Lexer_advance(L)) ELSE L

RECURSIVE Lexer_eatDigits(_)
\* while (this.isDigit(this.peek()) && !this.isEOF()) this.advance();
Lexer_eatDigits(L) ==
    IF Lexer_isDigit(Lexer_peek(L)) /\ ~Lexer_isEOF(L) THEN Lexer_eatDigits(Lexer_advance(L)) ELSE L

RECURSIVE Lexer_eatAlphaNumerics(_)
\* while (this.isAlphaNumeric(this.peek()) && !this.isEOF()) this.advance();
Lexer_eatAlphaNumerics(L) ==
    IF Lexer_isAlphaNumeric(Lexer_peek(L)) /\ ~Lexer_isEOF(L)
    THEN Lexer_eatAlphaNumerics(Lexer_advance(L)) ELSE L

RECURSIVE Lexer_eatStringLoop(_)
\* the loop of eatString: advance to the closing quote, counting rows
Lexer_eatStringLoop(L) ==
    IF Lexer_peek(L) # "\"" /\ ~Lexer_isEOF(L)
    THEN Lexer_eatStringLoop(Lexer_advance(
             IF Lexer_peek(L) = "\n" THEN [L EXCEPT !.row = @ + 1, !.col = 1] ELSE L))
    ELSE L

Lexer_eatString(L) ==
    LET startCol == L.col - 1
        L1 == Lexer_eatStringLoop(L)
        L2 == Lexer_advance(L1)
    IN  IF Lexer_isEOF(L1)
        THEN report(L1, TSLoxError("Syntax", Lexer_curLocation(L1), "unterminated string literal", <<>>))
        ELSE Lexer_addToken(L2,
                 [type |-> "string",
                  location |-> [row |-> L2.row, col |-> startCol],
                  literalValue |-> substring(L2.start + 1, L2.current - 1)])

Lexer_eatIdentifier(L) ==
    LET startCol == L.col - 1
        L1 == Lexer_eatAlphaNumerics(L)
        identifierLiteralValue == substring(L1.start, L1.current)
        tokenType == IF identifierLiteralValue \in DOMAIN RESERVED_KEYWORDS
                     THEN RESERVED_KEYWORDS[identifierLiteralValue]
                     ELSE "identifier"
    IN  Lexer_addToken(L1,
            [type |-> tokenType,
             literalValue |-> identifierLiteralValue,
             location |-> [row |-> L1.row, col |-> startCol]])

Lexer_eatNumber(L) ==
    LET startCol == L.col - 1
        L1 == Lexer_eatDigits(L)
        L2 == IF Lexer_peek(L1) = "." /\ Lexer_isDigit(Lexer_peekNext(L1))
              THEN Lexer_advance(L1) ELSE L1
        L3 == Lexer_eatDigits(L2)
        numberLiteralValue == substring(L3.start, L3.current)
    IN  Lexer_addToken(L3,
            [type |-> "number",
             literalValue |-> parseInt(numberLiteralValue),
             location |-> [row |-> L3.row, col |-> startCol]])

\* `c` followed by `second` gives the token `both`, `c` alone the token `c`
Lexer_oneOrTwo(L, c, second, both) ==
    IF Lexer_match(L, second) THEN Lexer_simple(Lexer_advance(L), both) ELSE Lexer_simple(L, c)

\* whether the iteration at L opens a block comment: '/' then '*' (and neither '//' nor '/=')
Lexer_opensComment(L) ==
    LET L1 == Lexer_advance(L)
    IN  /\ charAt(L.current) = "/"
        /\ ~Lexer_match(L1, "/")
        /\ ~Lexer_match(L1, "=")
        /\ Lexer_match(L1, "*")

\* one iteration of the loop of lex(): this.start = this.current, advance, switch
Lexer_lexIteration(L0) ==
    LET currentChar == charAt(L0.current)
        L == Lexer_advance([L0 EXCEPT !.start = L0.current])
    IN  CASE currentChar \in {"\t", "\r", " "} -> L
          [] currentChar \in {";", "{", "}", "(", ")", "^", "?", ":", ",", "."} ->
                Lexer_simple(L, currentChar)
          [] currentChar = "/" ->
                IF Lexer_match(L, "/") THEN Lexer_skipLine(Lexer_advance(L))
                ELSE IF Lexer_match(L, "=") THEN Lexer_simple(Lexer_advance(L), "/=")
                ELSE IF Lexer_match(L, "*") THEN Lexer_advance(L)
                ELSE Lexer_simple(L, "/")
          [] currentChar = "#" -> Lexer_skipLine(L)
          [] currentChar = "\n" -> [L EXCEPT !.row = @ + 1, !.col = 1]
          [] currentChar = "<" -> Lexer_oneOrTwo(L, "<", "=", "<=")
          [] currentChar = ">" -> Lexer_oneOrTwo(L, ">", "=", ">=")
          [] currentChar = "=" -> Lexer_oneOrTwo(L, "=", "=", "==")
          [] currentChar = "!" -> Lexer_oneOrTwo(L, "!", "=", "!=")
          [] currentChar = "+" ->
                IF Lexer_match(L, "+") THEN Lexer_simple(Lexer_advance(L), "++")
                ELSE Lexer_oneOrTwo(L, "+", "=", "+=")
          [] currentChar = "-" ->
                IF Lexer_match(L, "-") THEN Lexer_simple(Lexer_advance(L), "--")
                ELSE Lexer_oneOrTwo(L, "-", "=", "-=")
          [] currentChar = "*" -> Lexer_oneOrTwo(L, "*", "=", "*=")
          [] currentChar = "\"" -> Lexer_eatString(L)
          [] OTHER ->
                IF Lexer_isDigit(currentChar) THEN Lexer_eatNumber(L)
                ELSE IF Lexer_isAlphaNumeric(currentChar) THEN Lexer_eatIdentifier(L)
                ELSE report(L, TSLoxError("Syntax", Lexer_curLocation(L), "unexpected token", <<currentChar>>))

(***************************************************************************)
(* AST.  Every expression carries its location; a Literal or This node     *)
(* also carries id, the index of its token: the identity under which the   *)
(* resolver files it in the bindings map (a Map keyed by the node object). *)
(***************************************************************************)
Null == [kind |-> "null"]

Literal(token, index) ==
    [kind |-> "Literal", location |-> token.location, value |-> token, id |-> index]

ThisExpression(location, index) == [kind |-> "This", location |-> location, id |-> index]

SuperExpression(location, property) ==
    [kind |-> "Super", location |-> location, property |-> property]

GroupingExpression(location, expr) == [kind |-> "Grouping", location |-> location, expr |-> expr]

UnaryExpression(location, operator, expr, isPostfix) ==
    [kind |-> "Unary", location |-> location, operator |-> operator, expr |-> expr,
     isPostfix |-> isPostfix]

BinaryExpression(location, leftExpr, operator, rightExpr) ==
    [kind |-> "Binary", location |-> location, leftExpr |-> leftExpr, operator |-> operator,
     rightExpr |-> rightExpr]

TernaryExpression(location, c, t, f) ==
    [kind |-> "Ternary", location |-> location, conditionalExpression |-> c,
     truthyExpression |-> t, falsyExpression |-> f]

AssignmentExpression(location, lValue, rValue) ==
    [kind |-> "Assignment", location |-> location, lValue |-> lValue, rValue |-> rValue]

FunctionCallExpression(location, calle, args) ==
    [kind |-> "FunctionCall", location |-> location, calle |-> calle, args |-> args]

ClassInstantiationExpression(location, callExpression) ==
    [kind |-> "ClassInstantiation", location |-> location, callExpression |-> callExpression]

InstanceGetExpression(location, instance, property) ==
    [kind |-> "InstanceGet", location |-> location, instance |-> instance, property |-> property]

ExpressionStatement(expression) == [kind |-> "ExpressionStatement", expression |-> expression]

VariableDeclarationStatement(declarations) ==
    [kind |-> "VariableDeclarationStatement", declarations |-> declarations]

BlockStatement(stmts) == [kind |-> "BlockStatement", statements |-> stmts]

IfStatement(condition, trueStatement, falseStatement) ==
    [kind |-> "IfStatement", condition |-> condition, trueStatement |-> trueStatement,
     falseStatement |-> falseStatement]

WhileStatement(condition, body) ==
    [kind |-> "WhileStatement", condition |-> condition, body |-> body]

FunctionDeclarationStatement(functionName, args, body) ==
    [kind |-> "FunctionDeclarationStatement", functionName |-> functionName, args |-> args,
     body |-> body]

ReturnStatement(returnTokenLocation, returnExpr) ==
    [kind |-> "ReturnStatement", returnTokenLocation |-> returnTokenLocation,
     returnExpr |-> returnExpr]

ClassDeclarationStatement(className, methods, superClass) ==
    [kind |-> "ClassDeclarationStatement", className |-> className, methods |-> methods,
     superClass |-> superClass]

(***************************************************************************)
(* Parser.  Each parsing method takes Parser.current and yields either     *)
(* Ok(node, current') or Err(error, current'): the TSLoxError it threw and *)
(* the cursor where it threw.                                              *)
(***************************************************************************)
Ok(node, cur) == [ok |-> TRUE, node |-> node, cur |-> cur]

Err(error, cur) == [ok |-> FALSE, err |-> error, cur |-> cur]

\* this.tokens[i]
tokenAt(i) == tokens[i + 1]

Parser_curToken(cur) == tokenAt(cur)

Parser_isEOF(cur) == tokenAt(cur).type = "EOF"

\* match(...tokenTypes): whether the token at the cursor is one of them (the caller then
\* continues at Parser_advance(cur))
Parser_match(cur, tokenTypes) == ~Parser_isEOF(cur) /\ tokenAt(cur).type \in tokenTypes

Parser_advance(cur) == cur + 1

Parser_check(cur, type) == Parser_curToken(cur).type = type

Parser_previous(cur) == tokenAt(cur - 1)

Parser_jumpBack(cur) == cur - 1

\* consume(tokenType, error): the token consumed is the node of the result
Parser_consume(cur, tokenType, error) ==
    IF ~Parser_isEOF(cur) /\ Parser_curToken(cur).type = tokenType
    THEN Ok(tokenAt(cur), Parser_advance(cur))
    ELSE Err(error, cur)

SyntaxError(location, message) == TSLoxError("Syntax", location, message, <<>>)

RECURSIVE Parser_expression(_), Parser_assignment(_), Parser_ternary(_), Parser_equality(_),
          Parser_comparison(_), Parser_term(_), Parser_factor(_), Parser_power(_),
          Parser_unary(_), Parser_call(_), Parser_classInstantiation(_), Parser_primary(_),
          Parser_statement(_), Parser_blockStatement(_), Parser_functionDeclarationStatement(_, _)

RECURSIVE Parser_binaryLoop(_, _, _, _)
\* while (this.match(...operators)) { operator = previous(); right = operand(); expr = new Binary }
\* shared by equality, comparison, term, factor and power; level names the caller
Parser_binaryLoop(level, startToken, expr, cur) ==
    LET operators ==
            CASE level = "equality" -> {"==", "!="}
              [] level = "comparison" -> {">", "<", ">=", "<="}
              [] level = "term" -> {"+", "-"}
              [] level = "factor" -> {"/", "*"}
              [] level = "power" -> {"^"}
        operator == tokenAt(cur)
    IN  IF Parser_match(cur, operators)
        THEN With([r \in {CASE level = "equality" -> Parser_comparison(Parser_advance(cur))
                            [] level = "comparison" -> Parser_term(Parser_advance(cur))
                            [] level = "term" -> Parser_factor(Parser_advance(cur))
                            [] level = "factor" -> Parser_power(Parser_advance(cur))
                            [] level = "power" -> Parser_unary(Parser_advance(cur))} |->
                 IF ~r.ok THEN r
                 ELSE Parser_binaryLoop(level, startToken,
                          BinaryExpression(startToken.location, expr, operator, r.node), r.cur)])
        ELSE Ok(expr, cur)

Parser_equality(cur) ==
    With([r \in {Parser_comparison(cur)} |->
        IF ~r.ok THEN r ELSE Parser_binaryLoop("equality", Parser_curToken(cur), r.node, r.cur)])

Parser_comparison(cur) ==
    With([r \in {Parser_term(cur)} |->
        IF ~r.ok THEN r ELSE Parser_binaryLoop("comparison", Parser_curToken(cur), r.node, r.cur)])

Parser_term(cur) ==
    With([r \in {Parser_factor(cur)} |->
        IF ~r.ok THEN r ELSE Parser_binaryLoop("term", Parser_curToken(cur), r.node, r.cur)])

Parser_factor(cur) ==
    With([r \in {Parser_power(cur)} |->
        IF ~r.ok THEN r ELSE Parser_binaryLoop("factor", Parser_curToken(cur), r.node, r.cur)])

Parser_power(cur) ==
    With([r \in {Parser_unary(cur)} |->
        IF ~r.ok THEN r ELSE Parser_binaryLoop("power", Parser_curToken(cur), r.node, r.cur)])

Parser_ternary(cur) ==
    With([r1 \in {Parser_equality(cur)} |->
        IF ~r1.ok THEN r1
        ELSE IF ~Parser_match(r1.cur, {"?"}) THEN r1
        ELSE With([r2 \in {Parser_ternary(Parser_advance(r1.cur))} |->
            IF ~r2.ok THEN r2
            ELSE With([r3 \in {Parser_consume(r2.cur, ":",
                                   SyntaxError(Parser_curToken(r2.cur).location,
                                               "expected :"))} |->
                IF ~r3.ok THEN r3
                ELSE With([r4 \in {Parser_ternary(r3.cur)} |->
                    IF ~r4.ok THEN r4
                    ELSE Ok(TernaryExpression(Parser_curToken(cur).location, r1.node,
                                              r2.node, r4.node), r4.cur)])])])])

\* buildOpAssignmentExpression(op): x op= e becomes x = x op e, the operator token synthesized
Parser_buildOpAssignmentExpression(startToken, expr, rValue, op) ==
    AssignmentExpression(startToken.location, expr,
        BinaryExpression(rValue.location, expr,
            [location |-> [row |-> rValue.location.row, col |-> rValue.location.col + 1],
             type |-> op],
            rValue))

Parser_assignment(cur) ==
    LET startToken == Parser_curToken(cur)
    IN  With([r1 \in {Parser_ternary(cur)} |->
        IF ~r1.ok THEN r1
        ELSE IF ~Parser_match(r1.cur, {"=", "+=", "-=", "/="}) THEN r1
        ELSE IF ~( (r1.node.kind = "Literal" /\ r1.node.value.type = "identifier")
                   \/ r1.node.kind = "InstanceGet" )
        THEN Err(SyntaxError(startToken.location, "invalid assignment expression"),
                 Parser_advance(r1.cur))
        ELSE With([r2 \in {Parser_assignment(Parser_advance(r1.cur))} |->
            IF ~r2.ok THEN r2
            ELSE LET operator == tokenAt(r1.cur)
                 IN  Ok(CASE operator.type = "=" ->
                                AssignmentExpression(startToken.location, r1.node, r2.node)
                           [] operator.type = "+=" ->
                                Parser_buildOpAssignmentExpression(startToken, r1.node, r2.node, "+")
                           [] operator.type = "-=" ->
                                Parser_buildOpAssignmentExpression(startToken, r1.node, r2.node, "-")
                           [] operator.type = "*=" ->
                                Parser_buildOpAssignmentExpression(startToken, r1.node, r2.node, "*")
                           [] operator.type = "/=" ->
                                Parser_buildOpAssignmentExpression(startToken, r1.node, r2.node, "/"),
                        r2.cur)])])

Parser_expression(cur) == Parser_assignment(cur)

Parser_unary(cur) ==
    \* check for postfix operators
    IF Parser_match(cur, {"identifier"}) /\ Parser_match(Parser_advance(cur), {"++", "--"})
    THEN LET identifier == tokenAt(cur)
             operator == tokenAt(cur + 1)
         IN  Ok(UnaryExpression(operator.location, operator, Literal(identifier, cur), TRUE),
                Parser_advance(Parser_advance(cur)))
    \* it was not a postfix ++ or -- operation so go back (jumpBack), then the prefix operators
    ELSE LET back == IF Parser_match(cur, {"identifier"})
                     THEN Parser_jumpBack(Parser_advance(cur)) ELSE cur
             operator == tokenAt(back)
         IN  IF Parser_match(back, {"-", "+", "!", "++", "--"})
             THEN With([r \in {Parser_unary(Parser_advance(back))} |->
                      IF ~r.ok THEN r
                      ELSE Ok(UnaryExpression(operator.location, operator, r.node, FALSE), r.cur)])
             ELSE Parser_classInstantiation(back)

RECURSIVE Parser_arguments(_, _)
\* do { args.push(this.expression()); } while (this.match(TokenType.COMMA)); node is the list
Parser_arguments(cur, args) ==
    With([r \in {Parser_expression(cur)} |->
        IF ~r.ok THEN r
        ELSE IF Parser_match(r.cur, {","})
        THEN Parser_arguments(Parser_advance(r.cur), Append(args, r.node))
        ELSE Ok(Append(args, r.node), r.cur)])

RECURSIVE Parser_callLoop(_, _)
\* the while (true) of call(): a call's parentheses or a property access, repeated
Parser_callLoop(calle, cur) ==
    IF Parser_match(cur, {"("})
    THEN With([ra \in {IF ~Parser_check(Parser_advance(cur), ")")
                       THEN Parser_arguments(Parser_advance(cur), <<>>)
                       ELSE Ok(<<>>, Parser_advance(cur))} |->
             IF ~ra.ok THEN ra
             ELSE With([rc \in {Parser_consume(ra.cur, ")",
                                    SyntaxError(calle.location,
                                                "expected ) after function call"))} |->
                 IF ~rc.ok THEN rc
                 ELSE Parser_callLoop(
                          FunctionCallExpression(calle.location, calle, ra.node), rc.cur)])])
    ELSE IF Parser_match(cur, {"."})
    THEN With([rp \in {Parser_consume(Parser_advance(cur), "identifier",
                           SyntaxError(Parser_curToken(Parser_advance(cur)).location,
                                       "expected property name after . operator"))} |->
             IF ~rp.ok THEN rp
             ELSE Parser_callLoop(InstanceGetExpression(calle.location, calle, rp.node),
                                  rp.cur)])
    ELSE Ok(calle, cur)

Parser_call(cur) ==
    With([r \in {Parser_primary(cur)} |->
        IF ~r.ok THEN r ELSE Parser_callLoop(r.node, r.cur)])

Parser_classInstantiation(cur) ==
    LET startTokenLocation == Parser_curToken(cur).location
    IN  IF Parser_match(cur, {"new"})
        THEN With([r \in {Parser_call(Parser_advance(cur))} |->
                 IF ~r.ok THEN r
                 ELSE IF r.node.kind = "FunctionCall"
                 THEN Ok(ClassInstantiationExpression(startTokenLocation, r.node), r.cur)
                 ELSE Err(SyntaxError(startTokenLocation,
                                      "new operator can only be used with classes"), r.cur)])
        ELSE Parser_call(cur)

Parser_primary(cur) ==
    IF Parser_match(cur, {"number", "string", "TRUE", "FALSE", "none", "identifier"})
    THEN Ok(Literal(tokenAt(cur), cur), Parser_advance(cur))
    ELSE IF Parser_match(cur, {"this"})
    THEN Ok(ThisExpression(tokenAt(cur).location, cur), Parser_advance(cur))
    ELSE IF Parser_match(cur, {"super"})
    THEN With([rd \in {Parser_consume(Parser_advance(cur), ".",
                           SyntaxError(Parser_curToken(Parser_advance(cur)).location,
                                       "expected . after super keyword"))} |->
             IF ~rd.ok THEN rd
             ELSE With([rp \in {Parser_consume(rd.cur, "identifier",
                                    SyntaxError(Parser_curToken(rd.cur).location,
                                                "expected identifier after ."))} |->
                 IF ~rp.ok THEN rp
                 ELSE Ok(SuperExpression(tokenAt(cur).location, rp.node), rp.cur)])])
    ELSE IF Parser_match(cur, {"("})
    THEN With([r \in {Parser_expression(Parser_advance(cur))} |->
             IF ~r.ok THEN r
             ELSE With([rc \in {Parser_consume(r.cur, ")",
                                    SyntaxError(Parser_curToken(r.cur).location,
                                                "expect ')' after expression"))} |->
                 IF ~rc.ok THEN rc
                 ELSE Ok(GroupingExpression(Parser_curToken(cur).location, r.node), rc.cur)])])
    ELSE Err(TSLoxError("Syntax", Parser_curToken(cur).location, "unexpected token",
                        <<Parser_curToken(cur).type>>), cur)

Parser_consumeSemicolon(cur) ==
    Parser_consume(cur, ";",
        SyntaxError(Parser_curToken(cur).location, "expected ; at end of statement"))

Parser_expressionStatement(cur) ==
    With([r \in {Parser_expression(cur)} |->
        IF ~r.ok THEN r
        ELSE With([rs \in {Parser_consumeSemicolon(r.cur)} |->
            IF ~rs.ok THEN rs ELSE Ok(ExpressionStatement(r.node), rs.cur)])])

RECURSIVE Parser_declarations(_, _)
\* the do ... while (this.match(TokenType.COMMA)) of variableDeclarationStatement
Parser_declarations(cur, variableDeclarations) ==
    With([ri \in {Parser_consume(cur, "identifier",
                      SyntaxError(Parser_curToken(cur).location, "expected variable name"))} |->
        IF ~ri.ok THEN ri
        ELSE With([rv \in {IF Parser_match(ri.cur, {"="})
                           THEN Parser_expression(Parser_advance(ri.cur))
                           ELSE Ok(Null, ri.cur)} |->
            IF ~rv.ok THEN rv
            ELSE LET decls == Append(variableDeclarations,
                                  [identifier |-> ri.node, initializer |-> rv.node])
                 IN  IF Parser_match(rv.cur, {","})
                     THEN Parser_declarations(Parser_advance(rv.cur), decls)
                     ELSE Ok(decls, rv.cur)])])

Parser_variableDeclarationStatement(cur) ==
    With([r \in {Parser_declarations(cur, <<>>)} |->
        IF ~r.ok THEN r
        ELSE With([rs \in {Parser_consumeSemicolon(r.cur)} |->
            IF ~rs.ok THEN rs ELSE Ok(VariableDeclarationStatement(r.node), rs.cur)])])

RECURSIVE Parser_blockLoop(_, _)
\* while (!this.isEOF() && !this.check(TokenType.CLOSE_BRACE)) statements.push(this.statement())
Parser_blockLoop(cur, stmts) ==
    IF ~Parser_isEOF(cur) /\ ~Parser_check(cur, "}")
    THEN With([r \in {Parser_statement(cur)} |->
             IF ~r.ok THEN r ELSE Parser_blockLoop(r.cur, Append(stmts, r.node))])
    ELSE Ok(stmts, cur)

Parser_blockStatement(cur) ==
    With([r \in {Parser_blockLoop(cur, <<>>)} |->
        IF ~r.ok THEN r
        ELSE With([rc \in {Parser_consume(r.cur, "}",
                               SyntaxError(Parser_curToken(r.cur).location, "expected }"))} |->
            IF ~rc.ok THEN rc ELSE Ok(BlockStatement(r.node), rc.cur)])])

\* the part of ifStatement() after the condition's ')': the branches
Parser_ifBranches(condition, cur) ==
    With([rt \in {Parser_statement(cur)} |->
        IF ~rt.ok THEN rt
        ELSE IF Parser_match(rt.cur, {"else"})
        THEN With([re \in {Parser_statement(Parser_advance(rt.cur))} |->
                 IF ~re.ok THEN re
                 ELSE Ok(IfStatement(condition, rt.node, re.node), re.cur)])
        ELSE Ok(IfStatement(condition, rt.node, Null), rt.cur)])

Parser_ifStatement(cur) ==
    With([ro \in {Parser_consume(cur, "(",
                      SyntaxError(Parser_curToken(cur).location,
                                  "expected '(' before if condition"))} |->
        IF ~ro.ok THEN ro
        ELSE With([rc \in {Parser_expression(ro.cur)} |->
            IF ~rc.ok THEN rc
            ELSE With([rp \in {Parser_consume(rc.cur, ")",
                                   SyntaxError(Parser_curToken(rc.cur).location,
                                               "expected ')' after if condition"))} |->
                IF ~rp.ok THEN rp ELSE Parser_ifBranches(rc.node, rp.cur)])])])

Parser_whileStatement(cur) ==
    With([ro \in {Parser_consume(cur, "(",
                      SyntaxError(Parser_curToken(cur).location,
                                  "expected '(' before while condition"))} |->
        IF ~ro.ok THEN ro
        ELSE With([rc \in {Parser_expression(ro.cur)} |->
            IF ~rc.ok THEN rc
            ELSE With([rp \in {Parser_consume(rc.cur, ")",
                                   SyntaxError(Parser_curToken(rc.cur).location,
                                               "expected ')' after while condition"))} |->
                IF ~rp.ok THEN rp
                ELSE With([rb \in {Parser_statement(rp.cur)} |->
                    IF ~rb.ok THEN rb
                    ELSE Ok(WhileStatement(rc.node, rb.node), rb.cur)])])])])

RECURSIVE Parser_parameters(_, _)
\* do { args.push(consume(IDENTIFIER)) } while (this.match(TokenType.COMMA))
Parser_parameters(cur, args) ==
    With([r \in {Parser_consume(cur, "identifier",
                     TSLoxError("Syntax", Parser_curToken(cur).location,
                                "expected argument to be an identifer but got",
                                <<Parser_curToken(cur).type>>))} |->
        IF ~r.ok THEN r
        ELSE IF Parser_match(r.cur, {","})
        THEN Parser_parameters(Parser_advance(r.cur), Append(args, r.node))
        ELSE Ok(Append(args, r.node), r.cur)])

\* the part of functionDeclarationStatement() after the parameters: ')', '{' and the body
Parser_functionBody(functionName, ra) ==
    With([rc \in {Parser_consume(ra.cur, ")",
                      SyntaxError(Parser_curToken(ra.cur).location,
                                  "expected ) after function arguments"))} |->
        IF ~rc.ok THEN rc
        ELSE With([rb \in {Parser_consume(rc.cur, "{",
                               SyntaxError(Parser_curToken(rc.cur).location,
                                           "expected { before function body"))} |->
            IF ~rb.ok THEN rb
            ELSE With([body \in {Parser_blockStatement(rb.cur)} |->
                IF ~body.ok THEN body
                ELSE Ok(FunctionDeclarationStatement(functionName, ra.node, body.node),
                        body.cur)])])])

\* kind is 'method' or 'function' and only words the messages
Parser_functionDeclarationStatement(cur, kind) ==
    With([rn \in {Parser_consume(cur, "identifier",
                      TSLoxError("Syntax", Parser_curToken(cur).location, "expected name",
                                 <<kind>>))} |->
        IF ~rn.ok THEN rn
        ELSE With([ro \in {Parser_consume(rn.cur, "(",
                               TSLoxError("Syntax", rn.node.location,
                                          "expected ( before arguments", <<kind>>))} |->
            IF ~ro.ok THEN ro
            ELSE With([ra \in {IF ~Parser_check(ro.cur, ")")
                               THEN Parser_parameters(ro.cur, <<>>)
                               ELSE Ok(<<>>, ro.cur)} |->
                IF ~ra.ok THEN ra ELSE Parser_functionBody(rn.node, ra)])])])

RECURSIVE Parser_methods(_, _)
\* while (!this.isEOF() && !this.check(CLOSE_BRACE)) push(functionDeclarationStatement('method'))
Parser_methods(cur, functionDeclarations) ==
    IF ~Parser_isEOF(cur) /\ ~Parser_check(cur, "}")
    THEN With([r \in {Parser_functionDeclarationStatement(cur, "method")} |->
             IF ~r.ok THEN r
             ELSE Parser_methods(r.cur, Append(functionDeclarations, r.node))])
    ELSE Ok(functionDeclarations, cur)

\* the `extends Name` clause of classDeclarationStatement(): the node is the superclass
\* reference, or null when there is no clause
Parser_superClass(cur) ==
    IF Parser_match(cur, {"extends"})
    THEN With([ri \in {Parser_consume(Parser_advance(cur), "identifier",
                           SyntaxError(Parser_curToken(Parser_advance(cur)).location,
                               "expected super class name after extends keyword"))} |->
             IF ~ri.ok THEN ri ELSE Ok(Literal(ri.node, Parser_advance(cur)), ri.cur)])
    ELSE Ok(Null, cur)

Parser_classDeclarationStatement(cur) ==
    With([rn \in {Parser_consume(cur, "identifier",
                      SyntaxError(Parser_curToken(cur).location,
                                  "expected class name after class keyword"))} |->
        IF ~rn.ok THEN rn
        ELSE With([rs \in {Parser_superClass(rn.cur)} |->
            IF ~rs.ok THEN rs
            ELSE With([ro \in {Parser_consume(rs.cur, "{",
                                   SyntaxError(Parser_curToken(rs.cur).location,
                                               "expected { after class name"))} |->
                IF ~ro.ok THEN ro
                ELSE With([rm \in {Parser_methods(ro.cur, <<>>)} |->
                    IF ~rm.ok THEN rm
                    ELSE With([rc \in {Parser_consume(rm.cur, "}",
                                           SyntaxError(Parser_curToken(rm.cur).location,
                                               "expected } at end of class declaration"))} |->
                        IF ~rc.ok THEN rc
                        ELSE Ok(ClassDeclarationStatement(rn.node, rm.node, rs.node),
                                rc.cur)])])])])])

Parser_returnStatement(cur) ==
    With([r \in {IF ~Parser_check(cur, ";") THEN Parser_expression(cur) ELSE Ok(Null, cur)} |->
        IF ~r.ok THEN r
        ELSE With([rs \in {Parser_consumeSemicolon(r.cur)} |->
            IF ~rs.ok THEN rs
            ELSE Ok(ReturnStatement(Parser_previous(cur).location, r.node), rs.cur)])])

Parser_statement(cur) ==
    IF Parser_match(cur, {"class"}) THEN Parser_classDeclarationStatement(Parser_advance(cur))
    ELSE IF Parser_match(cur, {"return"}) THEN Parser_returnStatement(Parser_advance(cur))
    ELSE IF Parser_match(cur, {"function"})
    THEN Parser_functionDeclarationStatement(Parser_advance(cur), "function")
    ELSE IF Parser_match(cur, {"while"}) THEN Parser_whileStatement(Parser_advance(cur))
    ELSE IF Parser_match(cur, {"if"}) THEN Parser_ifStatement(Parser_advance(cur))
    ELSE IF Parser_match(cur, {"{"}) THEN Parser_blockStatement(Parser_advance(cur))
    ELSE IF Parser_match(cur, {"let"}) THEN Parser_variableDeclarationStatement(Parser_advance(cur))
    ELSE Parser_expressionStatement(cur)

RECURSIVE Parser_sync_Stay(_)
\* sync that stops at the ; or } it finds and does not take it
Parser_sync_Stay(cur) ==
    IF Parser_match(cur, {";", "}"}) THEN cur
    ELSE IF ~Parser_isEOF(cur) THEN Parser_sync_Stay(Parser_advance(cur))
    ELSE cur

\* a catch clause of parse() that leaves the cursor where the error was raised
Parser_sync_None(cur) == cur

RECURSIVE Parser_sync(_)
\* while (!this.match(SEMICOLON, CLOSE_BRACE) && !this.isEOF()) this.advance();
Parser_sync(cur) ==
    IF Parser_match(cur, {";", "}"}) THEN Parser_advance(cur)
    ELSE IF ~Parser_isEOF(cur) THEN Parser_sync(Parser_advance(cur))
    ELSE cur

(***************************************************************************)
(* Maps (Map<K, V>): functions with a finite domain.                       *)
(***************************************************************************)
EmptyMap == <<>>

MapHas(m, k) == k \in DOMAIN m

MapSet(m, k, v) == (k :> v) @@ m

(***************************************************************************)
(* Exceptions in flight: none, a TSLoxError, a ReturnStatementError, or a  *)
(* TypeError of the host (a call of a method the visitor does not have).   *)
(***************************************************************************)
NoException == [kind |-> "none"]

Thrown(error) == [kind |-> "TSLoxError", error |-> error]

ReturnStatementError(returnStatement) ==
    [kind |-> "ReturnStatementError", returnStatement |-> returnStatement]

TypeError(message) == [kind |-> "TypeError", message |-> message]

\* new Error(message)
HostError(message) == [kind |-> "Error", message |-> message]

(***************************************************************************)
(* Resolver.  R = [stack, bindings, exc, ...]: Scopes.stack (index 1 is the *)
(* bottom), the bindings map and the exception in flight.                  *)
(***************************************************************************)
Scopes_isEmpty(stack) == Len(stack) = 0

\* assertNotEmpty(): what it throws
Scopes_assertNotEmpty(stack) ==
    IF Scopes_isEmpty(stack) THEN HostError("ScopeStack is empty") ELSE NoException

Scopes_push(stack, scope) == Append(stack, scope)

Scopes_pop(stack) == SubSeq(stack, 1, Len(stack) - 1)

Scopes_peek(stack) == stack[Len(stack)]

\* scope.get(variableName) is truthy
Scopes_holdsDefined(scope, variableName) == MapHas(scope, variableName) /\ scope[variableName]

\* findDepth: Array.findIndex yields the FIRST index (from the bottom of the stack) whose
\* scope maps the name to true; the result is stack.length - index - 1, or null (-1 here)
Scopes_findDepth(stack, variableName) ==
    LET found == {i \in 1..Len(stack) : Scopes_holdsDefined(stack[i], variableName)}
    IN  IF found = {} THEN -1
        ELSE LET depth == (CHOOSE i \in found : \A j \in found : i <= j) - 1
             IN  Len(stack) - depth - 1

\* pop() or peek() is called: the depth of the stack it is applied to
Applying(R, op) == [R EXCEPT !.uses = Append(@, [op |-> op, depth |-> Len(R.stack)])]

\* beginScope(): new Map() is a new object, ids holds the identities of the scopes of the stack
Resolver_beginScope(R) ==
    [R EXCEPT !.stack = Scopes_push(@, EmptyMap), !.made = @ + 1, !.ids = Append(@, R.made + 1)]

Resolver_endScope(R) ==
    IF Scopes_assertNotEmpty(R.stack).kind # "none"
    THEN [Applying(R, "pop") EXCEPT !.exc = Scopes_assertNotEmpty(R.stack)]
    ELSE [Applying(R, "pop") EXCEPT !.stack = Scopes_pop(@),
                                    !.ids = SubSeq(@, 1, Len(@) - 1)]

Resolver_define(R, variableName) ==
    IF Scopes_isEmpty(R.stack) THEN R
    ELSE [Applying(R, "peek") EXCEPT !.stack[Len(R.stack)] = MapSet(@, variableName, TRUE)]

Resolver_declare(R, variableName) ==
    IF Scopes_isEmpty(R.stack) THEN R
    ELSE [Applying(R, "peek") EXCEPT !.stack[Len(R.stack)] = MapSet(@, variableName, FALSE)]

\* resolveBinding; lookups records every search with the scope stack it ran on
Resolver_resolveBinding(R, expr, variableName) ==
    LET depth == Scopes_findDepth(R.stack, variableName)
        R1 == [R EXCEPT !.lookups = Append(@, [id |-> expr.id, name |-> variableName,
                                               stack |-> R.stack, depth |-> depth])]
    IN  IF depth # -1 THEN [R1 EXCEPT !.bindings = MapSet(@, expr.id, depth)] ELSE R1

\* resolveLocal without the test of a declared, not yet defined name
Resolver_resolveLocal_Unchecked(R, expr) ==
    IF expr.value.type = "identifier"
    THEN Resolver_resolveBinding(R, expr, expr.value.literalValue)
    ELSE R

Resolver_resolveLocal(R, expr) ==
    IF expr.value.type = "identifier"
    THEN LET variableName == expr.value.literalValue
         IN  IF Scopes_isEmpty(R.stack) THEN Resolver_resolveBinding(R, expr, variableName)
             ELSE IF /\ MapHas(Scopes_peek(R.stack), variableName)
                     /\ Scopes_peek(R.stack)[variableName] = FALSE
             THEN [Applying(R, "peek") EXCEPT
                       !.exc = Thrown(TSLoxError("Syntax", expr.location,
                                   "cannot use same variable for initialization", <<>>))]
             ELSE Resolver_resolveBinding(Applying(R, "peek"), expr, variableName)
    ELSE R

RECURSIVE Resolver_resolveExpr(_, _), Resolver_resolveStmt(_, _)

RECURSIVE Resolver_resolveExprs(_, _, _)
\* exprs.forEach(e => this.resolveExpr(e)), from index i
Resolver_resolveExprs(R, exprs, i) ==
    IF i > Len(exprs) \/ R.exc.kind # "none" THEN R
    ELSE Resolver_resolveExprs(Resolver_resolveExpr(R, exprs[i]), exprs, i + 1)

RECURSIVE Resolver_resolveStmtsFrom(_, _, _)
Resolver_resolveStmtsFrom(R, stmts, i) ==
    IF i > Len(stmts) \/ R.exc.kind # "none" THEN R
    ELSE Resolver_resolveStmtsFrom(Resolver_resolveStmt(R, stmts[i]), stmts, i + 1)

Resolver_resolveStmts(R, stmts) == Resolver_resolveStmtsFrom(R, stmts, 1)

Resolver_visitLiteral(R, expr) == Resolver_resolveLocal(R, expr)

Resolver_visitTernaryExpr(R, expr) ==
    Resolver_resolveExprs(R, <<expr.conditionalExpression, expr.truthyExpression,
                               expr.falsyExpression>>, 1)

Resolver_visitBinaryExpr(R, expr) == Resolver_resolveExprs(R, <<expr.leftExpr, expr.rightExpr>>, 1)

Resolver_visitUnaryExpr(R, expr) == Resolver_resolveExpr(R, expr.expr)

Resolver_visitGroupingExpr(R, expr) == Resolver_resolveExpr(R, expr.expr)

Resolver_visitFunctionCallExpr(R, expr) ==
    Resolver_resolveExprs(Resolver_resolveExpr(R, expr.calle), expr.args, 1)

Resolver_visitAssignmentExpr(R, expr) ==
    With([R1 \in {IF expr.lValue.kind = "Literal" THEN Resolver_resolveLocal(R, expr.lValue)
                  ELSE IF expr.lValue.kind = "InstanceGet"
                  THEN Resolver_resolveExpr(R, expr.lValue)
                  ELSE R} |->
        IF R1.exc.kind # "none" THEN R1 ELSE Resolver_resolveExpr(R1, expr.rValue)])

Resolver_visitClassInstantiationExpression(R, expr) ==
    Resolver_resolveExpr(R, expr.callExpression)

Resolver_visitInstanceGetExpression(R, expr) == Resolver_resolveExpr(R, expr.instance)

Resolver_visitThisExpression(R, expr) == Resolver_resolveBinding(R, expr, THIS)

\* expression.accept(this): SuperExpression.accept calls visitor.visitSuperExpression, which
\* the Resolver does not define
Resolver_resolveExpr(R, expression) ==
    IF R.exc.kind # "none" THEN R
    ELSE CASE expression.kind = "Literal" -> Resolver_visitLiteral(R, expression)
           [] expression.kind = "Ternary" -> Resolver_visitTernaryExpr(R, expression)
           [] expression.kind = "Binary" -> Resolver_visitBinaryExpr(R, expression)
           [] expression.kind = "Unary" -> Resolver_visitUnaryExpr(R, expression)
           [] expression.kind = "Grouping" -> Resolver_visitGroupingExpr(R, expression)
           [] expression.kind = "FunctionCall" -> Resolver_visitFunctionCallExpr(R, expression)
           [] expression.kind = "Assignment" -> Resolver_visitAssignmentExpr(R, expression)
           [] expression.kind = "ClassInstantiation" ->
                Resolver_visitClassInstantiationExpression(R, expression)
           [] expression.kind = "InstanceGet" -> Resolver_visitInstanceGetExpression(R, expression)
           [] expression.kind = "This" -> Resolver_visitThisExpression(R, expression)
           [] expression.kind = "Super" ->
                [R EXCEPT !.exc = TypeError("visitor.visitSuperExpression is not a function")]

RECURSIVE Resolver_declarations(_, _, _)
\* statement.declarations.forEach: declare, resolve the initializer, define
Resolver_declarations(R, declarations, i) ==
    IF i > Len(declarations) \/ R.exc.kind # "none" THEN R
    ELSE LET variableName == declarations[i].identifier.literalValue
             R1 == Resolver_declare(R, variableName)
         IN  With([R2 \in {IF declarations[i].initializer.kind # "null"
                           THEN Resolver_resolveExpr(R1, declarations[i].initializer)
                           ELSE R1} |->
                 IF R2.exc.kind # "none" THEN R2
                 ELSE Resolver_declarations(Resolver_define(R2, variableName),
                                            declarations, i + 1)])

Resolver_visitVariableDeclarationStatement(R, statement) ==
    Resolver_declarations(R, statement.declarations, 1)

RECURSIVE Resolver_defineAll(_, _, _)
\* statement.args.forEach(arg => this.define(arg.literalValue))
Resolver_defineAll(R, args, i) ==
    IF i > Len(args) THEN R
    ELSE Resolver_defineAll(Resolver_define(R, args[i].literalValue), args, i + 1)

Resolver_visitFunctionDeclarationStatement(R, statement) ==
    LET R1 == Resolver_define(R, statement.functionName.literalValue)
        R2 == Resolver_beginScope(R1)
        R3 == Resolver_defineAll(R2, statement.args, 1)
    IN  With([R4 \in {Resolver_resolveStmts(R3, statement.body.statements)} |->
            IF R4.exc.kind # "none" THEN R4 ELSE Resolver_endScope(R4)])

Resolver_visitReturnStatement(R, statement) ==
    IF statement.returnExpr.kind # "null" THEN Resolver_resolveExpr(R, statement.returnExpr) ELSE R

Resolver_visitExpressionStatement(R, statement) == Resolver_resolveExpr(R, statement.expression)

\* visitBlockStatement without its endScope()
Resolver_visitBlockStatement_NoEnd(R, statement) ==
    Resolver_resolveStmts(Resolver_beginScope(R), statement.statements)

Resolver_visitBlockStatement(R, statement) ==
    With([R1 \in {Resolver_resolveStmts(Resolver_beginScope(R), statement.statements)} |->
        IF R1.exc.kind # "none" THEN R1 ELSE Resolver_endScope(R1)])

Resolver_visitIfStatement(R, statement) ==
    With([R1 \in {Resolver_resolveExpr(R, statement.condition)} |->
        IF R1.exc.kind # "none" THEN R1
        ELSE With([R2 \in {Resolver_resolveStmt(R1, statement.trueStatement)} |->
            IF R2.exc.kind # "none" \/ statement.falseStatement.kind = "null" THEN R2
            ELSE Resolver_resolveStmt(R2, statement.falseStatement)])])

Resolver_visitWhileStatement(R, statement) ==
    With([R1 \in {Resolver_resolveExpr(R, statement.condition)} |->
        IF R1.exc.kind # "none" THEN R1 ELSE Resolver_resolveStmt(R1, statement.body)])

Resolver_visitClassDeclarationStatement(R, statement) ==
    LET R1 == Resolver_define(R, statement.className.literalValue)
        R2 == Resolver_define(Resolver_beginScope(R1), THIS)
    IN  With([R3 \in {Resolver_resolveStmts(R2, statement.methods)} |->
            IF R3.exc.kind # "none" THEN R3 ELSE Resolver_endScope(R3)])

\* statement.accept(this)
Resolver_accept(R, statement) ==
    CASE statement.kind = "ExpressionStatement" ->
             Resolver_visitExpressionStatement(R, statement)
      [] statement.kind = "VariableDeclarationStatement" ->
             Resolver_visitVariableDeclarationStatement(R, statement)
      [] statement.kind = "BlockStatement" -> Resolver_visitBlockStatement(R, statement)
      [] statement.kind = "IfStatement" -> Resolver_visitIfStatement(R, statement)
      [] statement.kind = "WhileStatement" -> Resolver_visitWhileStatement(R, statement)
      [] statement.kind = "FunctionDeclarationStatement" ->
             Resolver_visitFunctionDeclarationStatement(R, statement)
      [] statement.kind = "ReturnStatement" -> Resolver_visitReturnStatement(R, statement)
      [] statement.kind = "ClassDeclarationStatement" ->
             Resolver_visitClassDeclarationStatement(R, statement)

\* resolveStmt; visits records, for every statement resolved without raising, the scope
\* stack before and after it
Resolver_resolveStmt(R, statement) ==
    IF R.exc.kind # "none" THEN R
    ELSE With([R1 \in {Resolver_accept(R, statement)} |->
             IF R1.exc.kind # "none" THEN R1
             ELSE [R1 EXCEPT !.visits = Append(@, [kind |-> statement.kind,
                                                   before |-> [ids |-> R.ids, stack |-> R.stack],
                                                   after |-> [ids |-> R1.ids,
                                                              stack |-> R1.stack]])]])

\* resolve(): the bindings, or the exception that ended the walk
Resolver_resolve(stmts) ==
    Resolver_resolveStmts([stack |-> <<>>, bindings |-> EmptyMap, exc |-> NoException,
                           lookups |-> <<>>, ids |-> <<>>, made |-> 0, visits |-> <<>>,
                           uses |-> <<>>], stmts)

(***************************************************************************)
(* Runtime values.  A number is an integer here (the lexer stores          *)
(* parseInt of the lexeme); NaN and the infinities are the host's.         *)
(* Functions, classes and instances are references into the heap.          *)
(***************************************************************************)
Num(n) == [t |-> "number", n |-> n]

Str(s) == [t |-> "string", s |-> s]

Bool(b) == [t |-> "boolean", b |-> b]

Undefined == [t |-> "undefined"]

NaN == [t |-> "NaN"]

Infinity(negative) == [t |-> "Infinity", negative |-> negative]

Fn(f) == [t |-> "LoxCallableFn", fn |-> f]

Native(name) == [t |-> "NativeLoxCallable", name |-> name]

Class(c) == [t |-> "LoxClass", class |-> c]

Instance(i) == [t |-> "LoxInstance", instance |-> i]

\* value instanceof LoxCallable
IsLoxCallable(v) == v.t \in {"LoxCallableFn", "NativeLoxCallable"}

\* the host's truthiness: if (value)
Truthy(v) ==
    CASE v.t = "number" -> v.n # 0
      [] v.t = "string" -> Len(v.s) > 0
      [] v.t = "boolean" -> v.b
      [] v.t \in {"undefined", "NaN"} -> FALSE
      [] OTHER -> TRUE

\* the host's ===
StrictEquals(a, b) ==
    /\ a.t = b.t
    /\ CASE a.t = "number" -> a.n = b.n
         [] a.t = "string" -> a.s = b.s
         [] a.t = "boolean" -> a.b = b.b
         [] a.t = "undefined" -> TRUE
         [] a.t = "NaN" -> FALSE
         [] a.t = "Infinity" -> a.negative = b.negative
         [] a.t = "LoxCallableFn" -> a.fn = b.fn
         [] a.t = "NativeLoxCallable" -> a.name = b.name
         [] a.t = "LoxClass" -> a.class = b.class
         [] a.t = "LoxInstance" -> a.instance = b.instance

DigitChar(d) == CASE d = 0 -> "0" [] d = 1 -> "1" [] d = 2 -> "2" [] d = 3 -> "3" [] d = 4 -> "4"
                  [] d = 5 -> "5" [] d = 6 -> "6" [] d = 7 -> "7" [] d = 8 -> "8" [] d = 9 -> "9"

RECURSIVE NatToString(_)
NatToString(n) == IF n < 10 THEN <<DigitChar(n)>> ELSE Append(NatToString(n \div 10), DigitChar(n % 10))

\* Number.prototype.toString of an integer
IntToString(n) == IF n < 0 THEN <<"-">> \o NatToString(-n) ELSE NatToString(n)

\* the string a digits-only text denotes as a number (Number("12") = 12, Number("") = 0);
\* any other text is not a number
StringIsNumeric(s) == \A k \in 1..Len(s) : s[k] \in Digits

\* the host's ToNumber
ToNumber(v) ==
    CASE v.t = "number" -> v
      [] v.t = "boolean" -> Num(IF v.b THEN 1 ELSE 0)
      [] v.t = "string" -> IF StringIsNumeric(v.s) THEN Num(parseInt(v.s)) ELSE NaN
      [] v.t = "Infinity" -> v
      [] OTHER -> NaN

\* isNaN(value)
isNaN(v) == ToNumber(v).t = "NaN"

(***************************************************************************)
(* The heap H of the evaluator: envs (Environment objects), fns            *)
(* (LoxCallableFn), classes (LoxClass), instances (LoxInstance),           *)
(* currentEnvironment (the module-level register), stdout, value (the      *)
(* value of the expression just evaluated), exc (the exception in flight), *)
(* and three records of the run: calls (the active calls, innermost       *)
(* last), bound (the instance the last property read bound a method to)    *)
(* and trace (what was evaluated, in order).                               *)
(***************************************************************************)
Log(H, event) == [H EXCEPT !.trace = Append(@, event)]

\* throw new TSLoxError(...)
Throw(H, error) ==
    Log([H EXCEPT !.exc = Thrown(error)],
        [e |-> "throw", error |-> error, envs |-> H.envs, instances |-> Len(H.instances)])

Return(H, v) == [H EXCEPT !.value = v]

\* new Environment(outerScope): the new object is the last of H.envs
Environment_new(H, outerScope) ==
    [H EXCEPT !.envs = Append(@, [declarations |-> EmptyMap, outerScope |-> outerScope])]

Environment_define(H, env, variableName, v) ==
    Log([H EXCEPT !.envs[env].declarations = MapSet(@, variableName, v)],
        [e |-> "define", env |-> env, name |-> variableName])

Environment_setValue(H, env, variableName, v) ==
    Log([H EXCEPT !.envs[env].declarations = MapSet(@, variableName, v)],
        [e |-> "setValue", env |-> env, name |-> variableName,
         created |-> ~MapHas(H.envs[env].declarations, variableName)])

Environment_getValue(H, env, variableName) ==
    IF MapHas(H.envs[env].declarations, variableName)
    THEN H.envs[env].declarations[variableName] ELSE Undefined

RECURSIVE Environment_resolve(_, _, _)
\* resolve(depth): depth times environment?._outerScope; 0 stands for undefined
Environment_resolve(H, env, depth) ==
    IF depth = 0 \/ env = 0 THEN env
    ELSE Environment_resolve(H, H.envs[env].outerScope, depth - 1)

RECURSIVE Environment_getGlobalEnvironment(_, _)
Environment_getGlobalEnvironment(H, env) ==
    IF H.envs[env].outerScope # 0
    THEN Environment_getGlobalEnvironment(H, H.envs[env].outerScope) ELSE env

Environment_getGlobalVariable(H, env, variableName) ==
    Environment_getValue(H, Environment_getGlobalEnvironment(H, env), variableName)

Environment_setGlobalVariable(H, env, variableName, v) ==
    Environment_setValue(H, Environment_getGlobalEnvironment(H, env), variableName, v)

\* get(variableName, depth): depth = -1 stands for undefined (no hops entry)
Environment_get(H, env, variableName, depth) ==
    IF depth # -1
    THEN LET environment == Environment_resolve(H, env, depth)
         IN  IF environment = 0 THEN Undefined
             ELSE Environment_getValue(H, environment, variableName)
    ELSE Environment_getGlobalVariable(H, env, variableName)

\* assign that writes to the global environment whatever the depth
Environment_assign_Global(H, env, variableName, v, depth) ==
    Environment_setGlobalVariable(H, env, variableName, v)

\* assign(variableName, value, depth)
Environment_assign(H, env, variableName, v, depth) ==
    IF depth # -1
    THEN LET environment == Environment_resolve(H, env, depth)
         IN  IF environment = 0 THEN H
             ELSE Environment_setValue(H, environment, variableName, v)
    ELSE Environment_setGlobalVariable(H, env, variableName, v)

RECURSIVE Environment_isDefined(_, _, _)
Environment_isDefined(H, env, variableName) ==
    \/ MapHas(H.envs[env].declarations, variableName)
    \/ /\ H.envs[env].outerScope # 0
       /\ Environment_isDefined(H, H.envs[env].outerScope, variableName)

Environment_isDefinedInScope(H, env, variableName) ==
    MapHas(H.envs[env].declarations, variableName)

\* this.bindings.get(expr): -1 stands for undefined
Bindings_get(expr) == IF MapHas(bindings, expr.id) THEN bindings[expr.id] ELSE -1

RECURSIVE EnvironmentChain(_, _)
\* the environments from env to the root, innermost first
EnvironmentChain(H, env) ==
    IF env = 0 THEN <<>> ELSE <<env>> \o EnvironmentChain(H, H.envs[env].outerScope)

\* the first environment of the chain from env that declares the name, or 0
NearestDeclaring(H, env, variableName) ==
    LET chain == EnvironmentChain(H, env)
        hits == {k \in 1..Len(chain) : MapHas(H.envs[chain[k]].declarations, variableName)}
    IN  IF hits = {} THEN 0 ELSE chain[CHOOSE k \in hits : \A j \in hits : k <= j]

\* the global environment with clock and print, created when the module is loaded
GlobalEnvironment == 1

InitialHeap ==
    [envs |-> <<[declarations |->
                    (<<"c","l","o","c","k">> :> Native("clock")) @@
                    (<<"p","r","i","n","t">> :> Native("print")),
                 outerScope |-> 0]>>,
     fns |-> <<>>,
     classes |-> <<>>,
     instances |-> <<>>,
     currentEnvironment |-> GlobalEnvironment,
     stdout |-> <<>>,
     value |-> Undefined,
     exc |-> NoException,
     calls |-> <<>>,
     bound |-> 0,
     trace |-> <<>>]

(***************************************************************************)
(* Host operators on values                                                *)
(***************************************************************************)
\* the result of an operation the integers, NaN and the infinities do not hold
Unmodelled == [t |-> "unmodelled"]

Abs(n) == IF n < 0 THEN -n ELSE n

LoxCallableFn_functionName(H, f) == H.fns[f].functionDeclaration.functionName.literalValue

\* String(value), with the toString() of the runtime classes
JsString(H, v) ==
    CASE v.t = "number" -> IntToString(v.n)
      [] v.t = "string" -> v.s
      [] v.t = "boolean" -> IF v.b THEN <<"t","r","u","e">> ELSE <<"f","a","l","s","e">>
      [] v.t = "undefined" -> <<"u","n","d","e","f","i","n","e","d">>
      [] v.t = "NaN" -> <<"N","a","N">>
      [] v.t = "Infinity" ->
            (IF v.negative THEN <<"-">> ELSE <<>>) \o <<"I","n","f","i","n","i","t","y">>
      [] v.t = "LoxCallableFn" ->
            <<"f","n"," ","<">> \o LoxCallableFn_functionName(H, v.fn) \o <<">">>
      [] v.t = "NativeLoxCallable" -> <<"f","n"," ","<","n","a","t","i","v","e",">">>
      [] v.t = "LoxClass" ->
            <<"c","l","a","s","s"," ","<">>
               \o H.classes[v.class].classDeclaration.className.literalValue \o <<">">>
      [] v.t = "LoxInstance" ->
            <<"i","n","s","t","a","n","c","e"," ","<">>
               \o H.classes[H.instances[v.instance].loxClass].classDeclaration.className.literalValue
               \o <<">">>

IsObject(v) == v.t \in {"LoxCallableFn", "NativeLoxCallable", "LoxClass", "LoxInstance"}

\* left + right of the host: concatenation when either side is a string or an object
JsPlus(H, a, b) ==
    IF a.t = "string" \/ b.t = "string" \/ IsObject(a) \/ IsObject(b)
    THEN Str(JsString(H, a) \o JsString(H, b))
    ELSE LET na == ToNumber(a)
             nb == ToNumber(b)
         IN  IF na.t = "NaN" \/ nb.t = "NaN" THEN NaN
             ELSE IF na.t = "Infinity" \/ nb.t = "Infinity" THEN Unmodelled
             ELSE Num(na.n + nb.n)

\* -value of the host
JsNegate(a) ==
    LET na == ToNumber(a)
    IN  IF na.t = "Infinity" THEN Infinity(~na.negative) ELSE Num(0 - na.n)

\* left - right, left * right, left / right and Math.pow(left, right) on operands that
\* passed assertNumber
JsArithmetic(operator, a, b) ==
    LET na == ToNumber(a)
        nb == ToNumber(b)
    IN  IF na.t = "Infinity" \/ nb.t = "Infinity" THEN Unmodelled
        ELSE CASE operator = "-" -> Num(na.n - nb.n)
               [] operator = "*" -> Num(na.n * nb.n)
               [] operator = "/" ->
                     IF nb.n = 0
                     THEN (IF na.n = 0 THEN NaN ELSE Infinity(na.n < 0))
                     ELSE IF Abs(na.n) % Abs(nb.n) = 0
                     THEN Num((IF (na.n < 0) = (nb.n < 0) THEN 1 ELSE -1)
                              * (Abs(na.n) \div Abs(nb.n)))
                     ELSE Unmodelled
               [] operator = "^" ->
                     IF nb.n = 0 THEN Num(1)
                     ELSE IF nb.n > 0 THEN Num(na.n ^ nb.n)
                     ELSE IF na.n = 1 THEN Num(1)
                     ELSE IF na.n = 0 THEN Infinity(FALSE)
                     ELSE Unmodelled

RECURSIVE StringLess(_, _, _)
\* s < t from position k on, for the host's comparison of two strings
StringLess(s, t, k) ==
    IF k > Len(t) THEN FALSE
    ELSE IF k > Len(s) THEN TRUE
    ELSE IF s[k] = t[k] THEN StringLess(s, t, k + 1)
    ELSE DigitValue(s[k]) < DigitValue(t[k])

\* left > right, >=, <, <= of the host on operands that passed assertNumber
JsCompare(operator, a, b) ==
    IF a.t = "string" /\ b.t = "string"
    THEN CASE operator = "<" -> Bool(StringLess(a.s, b.s, 1))
           [] operator = ">" -> Bool(StringLess(b.s, a.s, 1))
           [] operator = "<=" -> Bool(~StringLess(b.s, a.s, 1))
           [] operator = ">=" -> Bool(~StringLess(a.s, b.s, 1))
    ELSE LET na == ToNumber(a)
             nb == ToNumber(b)
         IN  IF na.t = "Infinity" \/ nb.t = "Infinity" THEN Unmodelled
             ELSE CASE operator = "<" -> Bool(na.n < nb.n)
                    [] operator = ">" -> Bool(na.n > nb.n)
                    [] operator = "<=" -> Bool(na.n <= nb.n)
                    [] operator = ">=" -> Bool(na.n >= nb.n)

(***************************************************************************)
(* Exceptions of the evaluator                                             *)
(***************************************************************************)
Raised(H) == H.exc.kind # "none"

\* the iterations of one while statement this model follows
MaxIterations == 4

\* the evaluation left the values this model holds, or a loop ran past MaxIterations
OutOfModel(H) == [H EXCEPT !.exc = [kind |-> "OutOfModel"]]

\* return of a visit method with a host value; a value outside the model ends the run
ReturnHost(H, v) == IF v.t = "unmodelled" THEN OutOfModel(H) ELSE Return(H, v)

Errors_undefinedVariable(variableName, location) ==
    TSLoxError("Runtime", location, "undefined variable", variableName)

Errors_propertyOnlyOnClass(location) ==
    TSLoxError("Runtime", location, "property can be only accessed on a class instance", <<>>)

\* the innermost active call, for the record of the run
NoCall == [fn |-> 0, closure |-> 0, frame |-> 0, receiver |-> 0, old |-> 0,
           method |-> FALSE, escaped |-> FALSE]

CurrentCall(H) == IF H.calls = <<>> THEN NoCall ELSE H.calls[Len(H.calls)]

(***************************************************************************)
(* Runtime classes                                                         *)
(***************************************************************************)
RECURSIVE ExpressionInterpreter_interpret(_, _)
RECURSIVE TSLoxInterpreter_accept(_, _)
RECURSIVE TSLoxInterpreter_interpretBlockStatement(_, _, _)

\* new LoxCallableFn(closure, functionDeclaration, interpreter); isMethod records who built it
LoxCallableFn_new(H, closure, functionDeclaration, isMethod) ==
    [H EXCEPT !.fns = Append(@, [closure |-> closure,
                                 functionDeclaration |-> functionDeclaration,
                                 loxInstance |-> 0,
                                 isMethod |-> isMethod])]

LoxCallableFn_arity(H, f) == Len(H.fns[f].functionDeclaration.args)

\* bind(loxInstance): this.loxInstance = loxInstance; return this
LoxCallableFn_bind(H, f, loxInstance) == [H EXCEPT !.fns[f].loxInstance = loxInstance]

RECURSIVE LoxCallableFn_defineArgs(_, _, _, _, _)
\* argNames.forEach((argName, index) => environment.define(argName, args[index]))
LoxCallableFn_defineArgs(H, environment, argNames, args, index) ==
    IF index > Len(argNames) THEN H
    ELSE LoxCallableFn_defineArgs(
             Environment_define(H, environment, argNames[index].literalValue, args[index]),
             environment, argNames, args, index + 1)

\* the end of call(): the active call is left with currentEnvironment as it stands
LoxCallableFn_leave(H, f, how) ==
    Log([H EXCEPT !.calls = SubSeq(@, 1, Len(@) - 1)],
        [e |-> "leave", fn |-> f, how |-> how, cur |-> H.currentEnvironment,
         call |-> CurrentCall(H), depth |-> Len(H.calls), raised |-> H.exc.kind])

\* call without the catch of ReturnStatementError: a return leaves the call as an error does
LoxCallableFn_call_NoCatch(H, f, args, receiver) ==
    LET fn == H.fns[f]
        H1 == Environment_new(H, fn.closure)
        environment == Len(H1.envs)
        H2 == IF fn.loxInstance # 0
              THEN Environment_define(H1, fn.closure, THIS, Instance(fn.loxInstance))
              ELSE H1
        oldEnvironment == H.currentEnvironment
        H3 == LoxCallableFn_defineArgs(H2, environment, fn.functionDeclaration.args, args, 1)
        entry == [fn |-> f, closure |-> fn.closure, frame |-> environment,
                  receiver |-> receiver, old |-> oldEnvironment, method |-> fn.isMethod,
                  escaped |-> \A k \in 1..Len(EnvironmentChain(H, oldEnvironment)) :
                                  EnvironmentChain(H, oldEnvironment)[k] # fn.closure]
        H4 == Log([H3 EXCEPT !.calls = Append(@, entry)], [e |-> "enter", call |-> entry])
    IN  With([H5 \in {TSLoxInterpreter_interpretBlockStatement(
                          H4, fn.functionDeclaration.body, environment)} |->
        IF ~Raised(H5)
        THEN Return(LoxCallableFn_leave(H5, f, "end"), Undefined)
        ELSE LoxCallableFn_leave(H5, f, "throw")])

\* call(...args); receiver is the instance of the i.m(...) that made the call, 0 otherwise
LoxCallableFn_call(H, f, args, receiver) ==
    LET fn == H.fns[f]
        H1 == Environment_new(H, fn.closure)
        environment == Len(H1.envs)
        H2 == IF fn.loxInstance # 0
              THEN Environment_define(H1, fn.closure, THIS, Instance(fn.loxInstance))
              ELSE H1
        oldEnvironment == H.currentEnvironment
        H3 == LoxCallableFn_defineArgs(H2, environment, fn.functionDeclaration.args, args, 1)
        entry == [fn |-> f, closure |-> fn.closure, frame |-> environment,
                  receiver |-> receiver, old |-> oldEnvironment, method |-> fn.isMethod,
                  escaped |-> \A k \in 1..Len(EnvironmentChain(H, oldEnvironment)) :
                                  EnvironmentChain(H, oldEnvironment)[k] # fn.closure]
        H4 == Log([H3 EXCEPT !.calls = Append(@, entry)], [e |-> "enter", call |-> entry])
    IN  With([H5 \in {TSLoxInterpreter_interpretBlockStatement(
                          H4, fn.functionDeclaration.body, environment)} |->
        IF ~Raised(H5)
        THEN Return(LoxCallableFn_leave(H5, f, "end"), Undefined)
        ELSE IF H5.exc.kind = "ReturnStatementError"
        THEN IF H5.exc.returnStatement.returnExpr.kind # "null"
             THEN With([H6 \in {ExpressionInterpreter_interpret(
                                    [H5 EXCEPT !.exc = NoException],
                                    H5.exc.returnStatement.returnExpr)} |->
                      IF Raised(H6) THEN LoxCallableFn_leave(H6, f, "throw")
                      ELSE Return(LoxCallableFn_leave(
                                      [H6 EXCEPT !.currentEnvironment = oldEnvironment],
                                      f, "return value"),
                                  H6.value)])
             ELSE Return(LoxCallableFn_leave([H5 EXCEPT !.exc = NoException], f, "return"),
                         Undefined)
        ELSE LoxCallableFn_leave(H5, f, "throw")])

\* NativePrint.call: console.log(String(args[0])); NativeClock.call: performance.now(), a
\* reading of the host's clock, which is not one of the values held here
NativeLoxCallable_call(H, name, args) ==
    IF name = "print"
    THEN Return(Log([H EXCEPT !.stdout = Append(@, JsString(H, args[1]))],
                    [e |-> "print", text |-> JsString(H, args[1])]),
                Undefined)
    ELSE OutOfModel(H)

LoxCallable_arity(H, v) ==
    IF v.t = "LoxCallableFn" THEN LoxCallableFn_arity(H, v.fn)
    ELSE IF v.name = "print" THEN 1 ELSE 0

RECURSIVE LoxClass_newMethods(_, _, _, _)
\* classDeclaration.methods.map(fn => new LoxCallableFn(new Environment(currentEnvironment), fn, interpreter));
\* the result is the heap with the functions added, and their list
LoxClass_newMethods(H, methods, k, made) ==
    IF k > Len(methods) THEN [heap |-> H, methods |-> made]
    ELSE LET H1 == Environment_new(H, H.currentEnvironment)
             H2 == LoxCallableFn_new(H1, Len(H1.envs), methods[k], TRUE)
         IN  LoxClass_newMethods(H2, methods, k + 1, Append(made, Len(H2.fns)))

\* new LoxClass(classDeclaration, interpreter): the new object is the last of H.classes
LoxClass_new(H, classDeclaration) ==
    LET r == LoxClass_newMethods(H, classDeclaration.methods, 1, <<>>)
    IN  [r.heap EXCEPT !.classes = Append(@, [classDeclaration |-> classDeclaration,
                                              methods |-> r.methods])]

\* this.methods.find(method => method.functionName === methodName); 0 stands for undefined
LoxClass_findMethod(H, c, methodName) ==
    LET methods == H.classes[c].methods
        hits == {k \in 1..Len(methods) : LoxCallableFn_functionName(H, methods[k]) = methodName}
    IN  IF hits = {} THEN 0 ELSE methods[CHOOSE k \in hits : \A j \in hits : k <= j]

LoxClass_arity(H, c) ==
    LET constructor == LoxClass_findMethod(H, c, CONSTRUCTOR)
    IN  IF constructor # 0 THEN LoxCallableFn_arity(H, constructor) ELSE 0

\* new LoxInstance(loxClass): the new object is the last of H.instances
LoxInstance_new(H, loxClass) ==
    Log([H EXCEPT !.instances = Append(@, [loxClass |-> loxClass, fields |-> EmptyMap])],
        [e |-> "new", instance |-> Len(H.instances) + 1, class |-> loxClass])

\* getProperty(property); H.bound is the instance a method was just bound to, 0 for a field
LoxInstance_getProperty(H, inst, property) ==
    LET propertyName == property.literalValue
        fields == H.instances[inst].fields
        method == LoxClass_findMethod(H, H.instances[inst].loxClass, propertyName)
    IN  IF MapHas(fields, propertyName)
        THEN Return([H EXCEPT !.bound = 0], fields[propertyName])
        ELSE IF method # 0
        THEN Return([LoxCallableFn_bind(H, method, inst) EXCEPT !.bound = inst], Fn(method))
        ELSE Throw(H, TSLoxError("Runtime", property.location,
                                 "accessing undefined property on instance", propertyName))

LoxInstance_setField(H, inst, property, v) ==
    Log([H EXCEPT !.instances[inst].fields = MapSet(@, property.literalValue, v)],
        [e |-> "setField", instance |-> inst, name |-> property.literalValue])

(***************************************************************************)
(* ExpressionInterpreter                                                   *)
(***************************************************************************)
ExpressionInterpreter_assertNumber(H, expr) ==
    With([H1 \in {ExpressionInterpreter_interpret(H, expr)} |->
        IF Raised(H1) THEN H1
        ELSE IF isNaN(H1.value)
        THEN Throw(H1, TSLoxError("Runtime", expr.location, "expected operand to be a number",
                                  <<>>))
        ELSE H1])

\* the environment a reference reaches from env: depth parents up, 0 when the chain ends
\* before; the global environment without a depth
Reached(H, env, depth) ==
    IF depth # -1 THEN Environment_resolve(H, env, depth)
    ELSE Environment_getGlobalEnvironment(H, env)

\* the environment a reference reaches exists and declares the name
ReachedHas(H, env, depth, variableName) ==
    /\ Reached(H, env, depth) # 0
    /\ MapHas(H.envs[Reached(H, env, depth)].declarations, variableName)

ExpressionInterpreter_visitThisExpression(H, expr) ==
    LET depth == Bindings_get(expr)
        v == Environment_get(H, H.currentEnvironment, THIS, depth)
    IN  Return(Log(H, [e |-> "this", value |-> v, call |-> CurrentCall(H), id |-> expr.id,
                       name |-> THIS, hops |-> depth,
                       env |-> Reached(H, H.currentEnvironment, depth),
                       envHas |-> ReachedHas(H, H.currentEnvironment, depth, THIS)]), v)

\* what a read or a write of a variable did: the hops used (-1 for none), the environment
\* reached (0 for none) and whether it declares the name, the nearest environment of the
\* chain that declares the name, and whether the global environment declares it
Access(H, e, expr, variableName, outcome) ==
    LET depth == Bindings_get(expr)
        cur == H.currentEnvironment
    IN  [e |-> e, id |-> expr.id, name |-> variableName, hops |-> depth, cur |-> cur,
         env |-> Reached(H, cur, depth),
         envHas |-> ReachedHas(H, cur, depth, variableName),
         nearest |-> NearestDeclaring(H, cur, variableName),
         globalHas |-> MapHas(H.envs[Environment_getGlobalEnvironment(H, cur)].declarations,
                              variableName),
         outcome |-> outcome,
         call |-> CurrentCall(H)]

\* currentEnvironment.assign(...) is about to be called for the identifier expr
Assigning(H, expr, variableName, v) ==
    Log(H, Access(H, "set", expr, variableName, v) @@ [envs |-> H.envs])

\* currentEnvironment.assign(...) has returned
Assigned(H) == Log(H, [e |-> "assigned", envs |-> H.envs])

ExpressionInterpreter_visitLiteral(H, expr) ==
    IF expr.value.type = "none" THEN Return(H, Num(0))
    ELSE IF expr.value.type = "TRUE" THEN Return(H, Num(1))
    ELSE IF expr.value.type = "FALSE" THEN Return(H, Num(0))
    ELSE IF expr.value.type = "identifier"
    THEN LET variableName == expr.value.literalValue
         IN  IF Environment_isDefined(H, H.currentEnvironment, variableName)
             THEN LET depth == Bindings_get(expr)
                      v == Environment_get(H, H.currentEnvironment, variableName, depth)
                  IN  Return(Log(H, Access(H, "get", expr, variableName, v)), v)
             ELSE Throw(Log(H, Access(H, "get", expr, variableName, [t |-> "error"])),
                        Errors_undefinedVariable(variableName, expr.value.location))
    \* expr.value.literalValue || 0
    ELSE IF expr.value.type = "number"
    THEN Return(H, Num(expr.value.literalValue))
    ELSE IF expr.value.literalValue = <<>> THEN Return(H, Num(0))
    ELSE Return(H, Str(expr.value.literalValue))

\* the value H.value of condition has just been tested by if (value): passed tells how the
\* test went, emptyString that the condition is the literal ""
Tested(H, where, condition) ==
    Log(H, [e |-> "test", where |-> where, value |-> H.value, passed |-> Truthy(H.value),
            emptyString |-> /\ condition.kind = "Literal"
                            /\ condition.value.type = "string"
                            /\ condition.value.literalValue = <<>>])

\* case TokenType.BANG with the branches exchanged
ExpressionInterpreter_bang_Exchanged(H, expr) ==
    With([H1 \in {ExpressionInterpreter_interpret(H, expr.expr)} |->
        IF Raised(H1) THEN H1
        ELSE LET result == IF Truthy(H1.value) THEN Num(1) ELSE Num(0)
             IN  Return(Log(Tested(H1, "!", expr.expr),
                            [e |-> "not", value |-> H1.value, result |-> result]), result)])

\* case TokenType.BANG
ExpressionInterpreter_bang(H, expr) ==
    With([H1 \in {ExpressionInterpreter_interpret(H, expr.expr)} |->
        IF Raised(H1) THEN H1
        ELSE LET result == IF Truthy(H1.value) THEN Num(0) ELSE Num(1)
             IN  Return(Log(Tested(H1, "!", expr.expr),
                            [e |-> "not", value |-> H1.value, result |-> result]), result)])

\* the body of case PLUS_PLUS and of case MINUS_MINUS for an identifier operand
ExpressionInterpreter_step(H, expr, operator) ==
    With([H1 \in {ExpressionInterpreter_assertNumber(H, expr.expr)} |->
        IF Raised(H1) THEN H1
        ELSE With([newValue \in {IF operator = "++" THEN JsPlus(H1, H1.value, Num(1))
                                 ELSE JsArithmetic("-", H1.value, Num(1))} |->
            LET variableName == expr.expr.value.literalValue
            IN  IF newValue.t = "unmodelled" THEN OutOfModel(H1)
                ELSE Return(Assigned(Environment_assign(
                                Assigning(H1, expr.expr, variableName, newValue),
                                H1.currentEnvironment, variableName, newValue,
                                Bindings_get(expr.expr))),
                            IF expr.isPostfix THEN H1.value ELSE newValue)])])

\* case PLUS_PLUS or MINUS_MINUS has been entered for the operand expr.expr
Stepping(H, expr) ==
    Log(H, [e |-> "step", operator |-> expr.operator.type, postfix |-> expr.isPostfix,
            identifier |-> expr.expr.kind = "Literal" /\ expr.expr.value.type = "identifier",
            envs |-> H.envs])

ExpressionInterpreter_visitUnaryExpr(H, expr) ==
    CASE expr.operator.type = "-" ->
            With([H1 \in {ExpressionInterpreter_assertNumber(H, expr.expr)} |->
                IF Raised(H1) THEN H1 ELSE Return(H1, JsNegate(H1.value))])
      [] expr.operator.type = "+" -> ExpressionInterpreter_assertNumber(H, expr.expr)
      [] expr.operator.type = "++" ->
            IF expr.expr.kind = "Literal"
            THEN IF expr.expr.value.type = "identifier"
                 THEN ExpressionInterpreter_step(Stepping(H, expr), expr, "++")
                 \* no return and no break: control falls through MINUS_MINUS into BANG
                 ELSE ExpressionInterpreter_bang(Stepping(H, expr), expr)
            ELSE Throw(Stepping(H, expr),
                       TSLoxError("Runtime", expr.expr.location,
                                  "operand of increment operator must be an identifier", <<>>))
      [] expr.operator.type = "--" ->
            IF expr.expr.kind = "Literal"
            THEN IF expr.expr.value.type = "identifier"
                 THEN ExpressionInterpreter_step(Stepping(H, expr), expr, "--")
                 \* no return and no break: control falls through into BANG
                 ELSE ExpressionInterpreter_bang(Stepping(H, expr), expr)
            ELSE Throw(Stepping(H, expr),
                       TSLoxError("Runtime", expr.expr.location,
                                  "operand of decrement operator must be an identifier", <<>>))
      [] expr.operator.type = "!" -> ExpressionInterpreter_bang(H, expr)
      [] OTHER -> Return(H, Undefined)

ExpressionInterpreter_visitGroupingExpr(H, expr) == ExpressionInterpreter_interpret(H, expr.expr)

ExpressionInterpreter_visitTernaryExpr(H, expr) ==
    With([H1 \in {ExpressionInterpreter_interpret(H, expr.conditionalExpression)} |->
        IF Raised(H1) THEN H1
        ELSE ExpressionInterpreter_interpret(Tested(H1, "?", expr.conditionalExpression),
                                             IF Truthy(H1.value) THEN expr.truthyExpression
                                             ELSE expr.falsyExpression)])

\* an operand of visitBinaryExpr: this.assertNumber(operand) in the arithmetic and the
\* ordering cases, this.interpret(operand) in case PLUS, EQ_EQ and BANG_EQ
ExpressionInterpreter_operand(H, operand, operator) ==
    IF operator \in {"^", "-", "*", "/", ">", ">=", "<", "<="}
    THEN ExpressionInterpreter_assertNumber(H, operand)
    ELSE ExpressionInterpreter_interpret(H, operand)

ExpressionInterpreter_visitBinaryExpr(H, expr) ==
    LET operator == expr.operator.type
    IN  IF operator \notin {"^", "+", "-", "*", "/", ">", ">=", "<", "<=", "==", "!="}
        THEN Return(H, Undefined)
        ELSE With([H1 \in {ExpressionInterpreter_operand(H, expr.leftExpr, operator)} |->
            IF Raised(H1) THEN H1
            ELSE With([H2 \in {ExpressionInterpreter_operand(H1, expr.rightExpr, operator)} |->
                LET leftValue == H1.value
                    rightValue == H2.value
                IN  IF Raised(H2) THEN H2
                    ELSE CASE operator = "+" ->
                                 ReturnHost(H2, JsPlus(H2, leftValue, rightValue))
                           [] operator \in {"^", "-", "*", "/"} ->
                                 ReturnHost(H2, JsArithmetic(operator, leftValue, rightValue))
                           [] operator \in {">", ">=", "<", "<="} ->
                                 ReturnHost(H2, JsCompare(operator, leftValue, rightValue))
                           [] operator = "==" ->
                                 Return(H2, Bool(StrictEquals(leftValue, rightValue)))
                           [] operator = "!=" ->
                                 Return(H2, Bool(~StrictEquals(leftValue, rightValue)))])])

ExpressionInterpreter_visitAssignmentExpr(H, expr) ==
    With([H1 \in {ExpressionInterpreter_interpret(H, expr.rValue)} |->
    LET v == H1.value
    IN  IF Raised(H1) THEN H1
        ELSE IF expr.lValue.kind = "Literal"
        THEN LET variableName == expr.lValue.value.literalValue
             IN  IF Environment_isDefined(H1, H1.currentEnvironment, variableName)
                 THEN Return(Assigned(Environment_assign(
                                 Assigning(H1, expr.lValue, variableName, v),
                                 H1.currentEnvironment, variableName, v,
                                 Bindings_get(expr.lValue))),
                             v)
                 ELSE Throw(H1, Errors_undefinedVariable(variableName, expr.lValue.location))
        ELSE IF expr.lValue.kind = "InstanceGet"
        THEN With([H2 \in {ExpressionInterpreter_interpret(H1, expr.lValue.instance)} |->
                 IF Raised(H2) THEN H2
                 ELSE IF H2.value.t = "LoxInstance"
                 THEN Return(LoxInstance_setField(H2, H2.value.instance,
                                                  expr.lValue.property, v), v)
                 ELSE Throw(H2, Errors_propertyOnlyOnClass(expr.lValue.location))])
        ELSE Return(H1, v)])

RECURSIVE ExpressionInterpreter_args(_, _, _, _)
\* args.map(arg => this.interpret(arg)): the heap after the arguments, and their values
ExpressionInterpreter_args(H, args, k, values) ==
    IF k > Len(args) THEN [heap |-> H, values |-> values]
    ELSE With([H1 \in {ExpressionInterpreter_interpret(H, args[k])} |->
             IF Raised(H1) THEN [heap |-> H1, values |-> values]
             ELSE ExpressionInterpreter_args(H1, args, k + 1, Append(values, H1.value))])

\* the callee of a call has its value: what it is, and the heap the call finds
Invoke(H, expr, v, arity) ==
    [e |-> "invoke", callee |-> v.t, arity |-> arity, given |-> Len(expr.args),
     location |-> expr.calle.location, envs |-> H.envs, instances |-> Len(H.instances)]

\* visitFunctionCallExpr with the arguments evaluated before the arity is compared
ExpressionInterpreter_visitFunctionCallExpr_ArgsFirst(H, expr) ==
    With([H1 \in {ExpressionInterpreter_interpret(H, expr.calle)} |->
    LET loxCallable == H1.value
        receiver == IF expr.calle.kind = "InstanceGet" THEN H1.bound ELSE 0
        arity == LoxCallable_arity(H1, loxCallable)
        H2 == Log(H1, Invoke(H1, expr, loxCallable, arity))
    IN  IF Raised(H1) THEN H1
        ELSE IF IsLoxCallable(loxCallable)
        THEN With([r \in {ExpressionInterpreter_args(H2, expr.args, 1, <<>>)} |->
                 IF Raised(r.heap) THEN r.heap
                 ELSE IF arity # Len(expr.args)
                 THEN Throw(r.heap, TSLoxError("Runtime", expr.calle.location,
                                               "expected args but got",
                                               <<arity, Len(expr.args)>>))
                 ELSE IF loxCallable.t = "LoxCallableFn"
                 THEN LoxCallableFn_call(r.heap, loxCallable.fn, r.values, receiver)
                 ELSE NativeLoxCallable_call(r.heap, loxCallable.name, r.values)])
        ELSE IF loxCallable.t = "LoxClass"
        THEN Throw(Log(H1, Invoke(H1, expr, loxCallable, LoxClass_arity(H1, loxCallable.class))),
                   TSLoxError("Runtime", expr.calle.location,
                       "class can be only instantiated using the new operator",
                       H1.classes[loxCallable.class].classDeclaration.className.literalValue))
        ELSE Throw(Log(H1, Invoke(H1, expr, loxCallable, -1)),
                   TSLoxError("Runtime", expr.calle.location, "is not callable",
                              JsString(H1, loxCallable)))])

\* visitFunctionCallExpr where a class as callee makes an instance, as new would
ExpressionInterpreter_visitFunctionCallExpr_ClassCallable(H, expr) ==
    With([H1 \in {ExpressionInterpreter_interpret(H, expr.calle)} |->
    LET loxCallable == H1.value
        receiver == IF expr.calle.kind = "InstanceGet" THEN H1.bound ELSE 0
        arity == LoxCallable_arity(H1, loxCallable)
        H2 == Log(H1, Invoke(H1, expr, loxCallable, arity))
    IN  IF Raised(H1) THEN H1
        ELSE IF IsLoxCallable(loxCallable)
        THEN IF arity # Len(expr.args)
             THEN Throw(H2, TSLoxError("Runtime", expr.calle.location,
                                       "expected args but got", <<arity, Len(expr.args)>>))
             ELSE With([r \in {ExpressionInterpreter_args(H2, expr.args, 1, <<>>)} |->
                      IF Raised(r.heap) THEN r.heap
                      ELSE IF loxCallable.t = "LoxCallableFn"
                      THEN LoxCallableFn_call(r.heap, loxCallable.fn, r.values, receiver)
                      ELSE NativeLoxCallable_call(r.heap, loxCallable.name, r.values)])
        ELSE IF loxCallable.t = "LoxClass"
        THEN Return(LoxInstance_new(
                        Log(H1, Invoke(H1, expr, loxCallable,
                                       LoxClass_arity(H1, loxCallable.class))),
                        loxCallable.class),
                    Instance(Len(H1.instances) + 1))
        ELSE Throw(Log(H1, Invoke(H1, expr, loxCallable, -1)),
                   TSLoxError("Runtime", expr.calle.location, "is not callable",
                              JsString(H1, loxCallable)))])

ExpressionInterpreter_visitFunctionCallExpr(H, expr) ==
    With([H1 \in {ExpressionInterpreter_interpret(H, expr.calle)} |->
    LET loxCallable == H1.value
        receiver == IF expr.calle.kind = "InstanceGet" THEN H1.bound ELSE 0
        arity == LoxCallable_arity(H1, loxCallable)
        H2 == Log(H1, Invoke(H1, expr, loxCallable, arity))
    IN  IF Raised(H1) THEN H1
        ELSE IF IsLoxCallable(loxCallable)
        THEN IF arity # Len(expr.args)
             THEN Throw(H2, TSLoxError("Runtime", expr.calle.location,
                                       "expected args but got", <<arity, Len(expr.args)>>))
             ELSE With([r \in {ExpressionInterpreter_args(H2, expr.args, 1, <<>>)} |->
                      IF Raised(r.heap) THEN r.heap
                      ELSE IF loxCallable.t = "LoxCallableFn"
                      THEN LoxCallableFn_call(r.heap, loxCallable.fn, r.values, receiver)
                      ELSE NativeLoxCallable_call(r.heap, loxCallable.name, r.values)])
        ELSE IF loxCallable.t = "LoxClass"
        THEN Throw(Log(H1, Invoke(H1, expr, loxCallable, LoxClass_arity(H1, loxCallable.class))),
                   TSLoxError("Runtime", expr.calle.location,
                       "class can be only instantiated using the new operator",
                       H1.classes[loxCallable.class].classDeclaration.className.literalValue))
        ELSE Throw(Log(H1, Invoke(H1, expr, loxCallable, -1)),
                   TSLoxError("Runtime", expr.calle.location, "is not callable",
                              JsString(H1, loxCallable)))])

ExpressionInterpreter_visitClassInstantiationExpression(H, expr) ==
    With([H1 \in {ExpressionInterpreter_interpret(H, expr.callExpression.calle)} |->
    LET loxClass == H1.value
        arity == LoxClass_arity(H1, loxClass.class)
        H2 == LoxInstance_new(H1, loxClass.class)
        loxInstance == Len(H2.instances)
        constructor == LoxClass_findMethod(H2, loxClass.class, CONSTRUCTOR)
        H3 == LoxCallableFn_bind(H2, constructor, loxInstance)
    IN  IF Raised(H1) THEN H1
        ELSE IF loxClass.t = "LoxClass"
        THEN IF arity # Len(expr.callExpression.args)
             THEN Throw(H1, TSLoxError("Runtime", expr.callExpression.calle.location,
                                       "expected args but got",
                                       <<arity, Len(expr.callExpression.args)>>))
             ELSE IF constructor = 0 THEN Return(H2, Instance(loxInstance))
             ELSE With([r \in {ExpressionInterpreter_args(H3, expr.callExpression.args,
                                                          1, <<>>)} |->
                 IF Raised(r.heap) THEN r.heap
                 ELSE With([H4 \in {LoxCallableFn_call(r.heap, constructor, r.values, 0)} |->
                     IF Raised(H4) THEN H4 ELSE Return(H4, Instance(loxInstance))])])
        ELSE Throw(H1, TSLoxError("Runtime", expr.callExpression.location, "is not a class",
                                  JsString(H1, loxClass)))])

ExpressionInterpreter_visitInstanceGetExpression(H, expr) ==
    With([H1 \in {ExpressionInterpreter_interpret(H, expr.instance)} |->
        IF Raised(H1) THEN H1
        ELSE IF H1.value.t = "LoxInstance"
        THEN LoxInstance_getProperty(H1, H1.value.instance, expr.property)
        ELSE Throw(H1, Errors_propertyOnlyOnClass(expr.property.location))])

\* interpret(expr): expr.accept(this); no visitor has a visitSuperExpression
ExpressionInterpreter_interpret(H, expr) ==
    LET H0 == Log(H, [e |-> "eval", kind |-> expr.kind, location |-> expr.location])
    IN  CASE expr.kind = "Literal" -> ExpressionInterpreter_visitLiteral(H0, expr)
          [] expr.kind = "This" -> ExpressionInterpreter_visitThisExpression(H0, expr)
          [] expr.kind = "Grouping" -> ExpressionInterpreter_visitGroupingExpr(H0, expr)
          [] expr.kind = "Unary" -> ExpressionInterpreter_visitUnaryExpr(H0, expr)
          [] expr.kind = "Binary" -> ExpressionInterpreter_visitBinaryExpr(H0, expr)
          [] expr.kind = "Ternary" -> ExpressionInterpreter_visitTernaryExpr(H0, expr)
          [] expr.kind = "Assignment" -> ExpressionInterpreter_visitAssignmentExpr(H0, expr)
          [] expr.kind = "FunctionCall" -> ExpressionInterpreter_visitFunctionCallExpr(H0, expr)
          [] expr.kind = "ClassInstantiation" ->
                ExpressionInterpreter_visitClassInstantiationExpression(H0, expr)
          [] expr.kind = "InstanceGet" -> ExpressionInterpreter_visitInstanceGetExpression(H0, expr)
          [] expr.kind = "Super" ->
                [H0 EXCEPT !.exc = TypeError("visitor.visitSuperExpression is not a function")]

(***************************************************************************)
(* TSLoxInterpreter                                                        *)
(***************************************************************************)
TSLoxInterpreter_visitExpressionStatement(H, statement) ==
    ExpressionInterpreter_interpret(H, statement.expression)

\* a declaration statement is about to bind variableName in the current environment; bound
\* tells that the environment binds the name already, to the value binding
Declaring(H, what, variableName) ==
    Log(H, [e |-> "declare", what |-> what, env |-> H.currentEnvironment,
            name |-> variableName,
            bound |-> Environment_isDefinedInScope(H, H.currentEnvironment, variableName),
            binding |-> Environment_getValue(H, H.currentEnvironment, variableName)])

RECURSIVE TSLoxInterpreter_declarations(_, _, _)
\* for (const variableDeclaration of variableDeclarations)
TSLoxInterpreter_declarations(H, declarations, k) ==
    IF k > Len(declarations) THEN H
    ELSE LET variableName == declarations[k].identifier.literalValue
             initializer == declarations[k].initializer
         IN  With([H1 \in {IF initializer.kind # "null"
                           THEN ExpressionInterpreter_interpret(H, initializer)
                           ELSE Return(H, Num(0))} |->
             IF Raised(H1) THEN H1
             ELSE IF Environment_isDefinedInScope(H1, H1.currentEnvironment, variableName)
             THEN Throw(Declaring(H1, "let", variableName),
                        TSLoxError("Runtime", declarations[k].identifier.location,
                                   "identifier is already declared in current scope",
                                   variableName))
             ELSE TSLoxInterpreter_declarations(
                      Environment_define(Declaring(H1, "let", variableName),
                                         H1.currentEnvironment, variableName, H1.value),
                      declarations, k + 1)])

TSLoxInterpreter_visitVariableDeclarationStatement(H, statement) ==
    TSLoxInterpreter_declarations(H, statement.declarations, 1)

RECURSIVE TSLoxInterpreter_forEach(_, _, _)
\* statements.forEach(statement => statement.accept(this)); an exception ends it
TSLoxInterpreter_forEach(H, stmts, k) ==
    IF k > Len(stmts) THEN H
    ELSE With([H1 \in {TSLoxInterpreter_accept(H, stmts[k])} |->
             IF Raised(H1) THEN H1 ELSE TSLoxInterpreter_forEach(H1, stmts, k + 1)])

\* no finally: currentEnvironment is put back only when the statements complete
TSLoxInterpreter_interpretBlockStatement(H, blockStatement, environment) ==
    LET oldEnvironment == H.currentEnvironment
    IN  With([H1 \in {TSLoxInterpreter_forEach([H EXCEPT !.currentEnvironment = environment],
                                               blockStatement.statements, 1)} |->
            IF Raised(H1) THEN H1 ELSE [H1 EXCEPT !.currentEnvironment = oldEnvironment]])

TSLoxInterpreter_visitBlockStatement(H, statement) ==
    LET H1 == Environment_new(H, H.currentEnvironment)
    IN  TSLoxInterpreter_interpretBlockStatement(H1, statement, Len(H1.envs))

TSLoxInterpreter_visitFunctionDeclarationStatement(H, statement) ==
    LET functionName == statement.functionName.literalValue
        H1 == LoxCallableFn_new(Declaring(H, "function", functionName),
                                H.currentEnvironment, statement, FALSE)
    IN  Environment_define(H1, H1.currentEnvironment, functionName, Fn(Len(H1.fns)))

TSLoxInterpreter_visitIfStatement(H, statement) ==
    With([H1 \in {ExpressionInterpreter_interpret(H, statement.condition)} |->
        IF Raised(H1) THEN H1
        ELSE IF Truthy(H1.value)
        THEN TSLoxInterpreter_accept(Tested(H1, "if", statement.condition),
                                     statement.trueStatement)
        ELSE IF statement.falseStatement.kind # "null"
        THEN TSLoxInterpreter_accept(Tested(H1, "if", statement.condition),
                                     statement.falseStatement)
        ELSE Tested(H1, "if", statement.condition)])

RECURSIVE TSLoxInterpreter_while(_, _, _)
\* the loop of visitWhileStatement, with the iterations left before the model gives up
TSLoxInterpreter_while(H, statement, left) ==
    With([H1 \in {ExpressionInterpreter_interpret(H, statement.condition)} |->
        IF Raised(H1) THEN H1
        ELSE IF ~Truthy(H1.value) THEN Tested(H1, "while", statement.condition)
        ELSE IF left = 0 THEN OutOfModel(H1)
        ELSE With([H2 \in {TSLoxInterpreter_accept(Tested(H1, "while", statement.condition),
                                                    statement.body)} |->
            IF Raised(H2) THEN H2 ELSE TSLoxInterpreter_while(H2, statement, left - 1)])])

TSLoxInterpreter_visitWhileStatement(H, statement) ==
    TSLoxInterpreter_while(H, statement, MaxIterations)

TSLoxInterpreter_visitReturnStatement(H, statement) ==
    [H EXCEPT !.exc = ReturnStatementError(statement)]

TSLoxInterpreter_visitClassDeclarationStatement(H, statement) ==
    LET className == statement.className.literalValue
        H0 == Declaring(H, "class", className)
        H1 == LoxClass_new(H0, statement)
    IN  IF Environment_isDefinedInScope(H, H.currentEnvironment, className)
        THEN Throw(H0, Errors_undefinedVariable(className, statement.className.location))
        ELSE Environment_define(H1, H1.currentEnvironment, className, Class(Len(H1.classes)))

\* statement.accept(this)
TSLoxInterpreter_accept(H, statement) ==
    LET H0 == Log(H, [e |-> "exec", kind |-> statement.kind, cur |-> H.currentEnvironment,
                      depth |-> Len(H.calls),
                      location |-> IF statement.kind = "ReturnStatement"
                                   THEN statement.returnTokenLocation
                                   ELSE [row |-> 0, col |-> 0]])
    IN  CASE statement.kind = "ExpressionStatement" ->
                TSLoxInterpreter_visitExpressionStatement(H0, statement)
          [] statement.kind = "VariableDeclarationStatement" ->
                TSLoxInterpreter_visitVariableDeclarationStatement(H0, statement)
          [] statement.kind = "BlockStatement" -> TSLoxInterpreter_visitBlockStatement(H0, statement)
          [] statement.kind = "FunctionDeclarationStatement" ->
                TSLoxInterpreter_visitFunctionDeclarationStatement(H0, statement)
          [] statement.kind = "IfStatement" -> TSLoxInterpreter_visitIfStatement(H0, statement)
          [] statement.kind = "WhileStatement" -> TSLoxInterpreter_visitWhileStatement(H0, statement)
          [] statement.kind = "ReturnStatement" -> TSLoxInterpreter_visitReturnStatement(H0, statement)
          [] statement.kind = "ClassDeclarationStatement" ->
                TSLoxInterpreter_visitClassDeclarationStatement(H0, statement)

(***************************************************************************)
(* Programs                                                                *)
(***************************************************************************)
\*   { let a=1; { let a=2; print(a); } print(a); }
SrcShadowing ==
    <<"{"," ","l","e","t"," ","a","=","1",";"," ","{"," ","l","e","t"," ","a","=","2",";"," ","p",
      "r","i","n","t","(","a",")",";"," ","}"," ","p","r","i","n","t","(","a",")",";"," ","}">>

\*   class A { greet(){ return "A"; } } class B extends A { greet(){ return super.greet() + "B"; } } print(new B().greet());
SrcSuper ==
    <<"c","l","a","s","s"," ","A"," ","{"," ","g","r","e","e","t","(",")","{"," ","r","e","t","u",
      "r","n"," ","\"","A","\"",";"," ","}"," ","}"," ","c","l","a","s","s"," ","B"," ","e","x","t",
      "e","n","d","s"," ","A"," ","{"," ","g","r","e","e","t","(",")","{"," ","r","e","t","u","r",
      "n"," ","s","u","p","e","r",".","g","r","e","e","t","(",")"," ","+"," ","\"","B","\"",";"," ",
      "}"," ","}"," ","p","r","i","n","t","(","n","e","w"," ","B","(",")",".","g","r","e","e","t",
      "(",")",")",";">>

\*   let i = 0; /* loop
\*    */ while (i < 3) { print(i); i = i + 1; } // end
SrcComment ==
    <<"l","e","t"," ","i"," ","="," ","0",";"," ","/","*"," ","l","o","o","p","\n"," ","*","/"," ",
      "w","h","i","l","e"," ","(","i"," ","<"," ","3",")"," ","{"," ","p","r","i","n","t","(","i",
      ")",";"," ","i"," ","="," ","i"," ","+"," ","1",";"," ","}"," ","/","/"," ","e","n","d">>

\*   print(1); @
SrcUnexpected ==
    <<"p","r","i","n","t","(","1",")",";"," ","@">>

\*   print(1; print(2);
SrcParseError ==
    <<"p","r","i","n","t","(","1",";"," ","p","r","i","n","t","(","2",")",";">>

\*   { let x = 0; function mk(){ let x = 10; function get(){ return x; } return get; } print(mk()()); }
SrcClosure ==
    <<"{"," ","l","e","t"," ","x"," ","="," ","0",";"," ","f","u","n","c","t","i","o","n"," ","m",
      "k","(",")","{"," ","l","e","t"," ","x"," ","="," ","1","0",";"," ","f","u","n","c","t","i",
      "o","n"," ","g","e","t","(",")","{"," ","r","e","t","u","r","n"," ","x",";"," ","}"," ","r",
      "e","t","u","r","n"," ","g","e","t",";"," ","}"," ","p","r","i","n","t","(","m","k","(",")",
      "(",")",")",";"," ","}">>

\*   function mk(){ let n = 0; function inc(){ n = n + 1; return n; } return inc; }
\*   let c = mk(); print(c()); print(c());
SrcCounter ==
    <<"f","u","n","c","t","i","o","n"," ","m","k","(",")","{"," ","l","e","t"," ","n"," ","="," ",
      "0",";"," ","f","u","n","c","t","i","o","n"," ","i","n","c","(",")","{"," ","n"," ","="," ",
      "n"," ","+"," ","1",";"," ","r","e","t","u","r","n"," ","n",";"," ","}"," ","r","e","t","u",
      "r","n"," ","i","n","c",";"," ","}","\n","l","e","t"," ","c"," ","="," ","m","k","(",")",";",
      " ","p","r","i","n","t","(","c","(",")",")",";"," ","p","r","i","n","t","(","c","(",")",")",
      ";">>

\*   class P { constructor(n){ this.n = n; } plus(k){ return this.n + k; } }
\*   let a = new P(1); let b = new P(20); print(a.plus(0)); print(a.plus(b.plus(0)));
SrcThisArgs ==
    <<"c","l","a","s","s"," ","P"," ","{"," ","c","o","n","s","t","r","u","c","t","o","r","(","n",
      ")","{"," ","t","h","i","s",".","n"," ","="," ","n",";"," ","}"," ","p","l","u","s","(","k",
      ")","{"," ","r","e","t","u","r","n"," ","t","h","i","s",".","n"," ","+"," ","k",";"," ","}",
      " ","}","\n","l","e","t"," ","a"," ","="," ","n","e","w"," ","P","(","1",")",";"," ","l","e",
      "t"," ","b"," ","="," ","n","e","w"," ","P","(","2","0",")",";"," ","p","r","i","n","t","(",
      "a",".","p","l","u","s","(","0",")",")",";"," ","p","r","i","n","t","(","a",".","p","l","u",
      "s","(","b",".","p","l","u","s","(","0",")",")",")",";">>

\*   class P { constructor(n){ this.n = n; } add(o, d){ if (d > 0) { o.add(this, d - 1); } return this.n; } }
\*   let a = new P(1); let b = new P(2); print(a.add(b, 1));
SrcThisBody ==
    <<"c","l","a","s","s"," ","P"," ","{"," ","c","o","n","s","t","r","u","c","t","o","r","(","n",
      ")","{"," ","t","h","i","s",".","n"," ","="," ","n",";"," ","}"," ","a","d","d","(","o",",",
      " ","d",")","{"," ","i","f"," ","(","d"," ",">"," ","0",")"," ","{"," ","o",".","a","d","d",
      "(","t","h","i","s",","," ","d"," ","-"," ","1",")",";"," ","}"," ","r","e","t","u","r","n",
      " ","t","h","i","s",".","n",";"," ","}"," ","}","\n","l","e","t"," ","a"," ","="," ","n","e",
      "w"," ","P","(","1",")",";"," ","l","e","t"," ","b"," ","="," ","n","e","w"," ","P","(","2",
      ")",";"," ","p","r","i","n","t","(","a",".","a","d","d","(","b",","," ","1",")",")",";">>

\*   class C { m(){ return 7; } } print(new C().m());
SrcNewCall ==
    <<"c","l","a","s","s"," ","C"," ","{"," ","m","(",")","{"," ","r","e","t","u","r","n"," ","7",
      ";"," ","}"," ","}"," ","p","r","i","n","t","(","n","e","w"," ","C","(",")",".","m","(",")",
      ")",";">>

\*   let n = 0; function f(a){ n = 5; return a; }
\*   f(n = 1, n = 2); print(n); print(1, 2); f(); clock(n = 3); print(f(4)); print(n);
SrcArity ==
    <<"l","e","t"," ","n"," ","="," ","0",";"," ","f","u","n","c","t","i","o","n"," ","f","(","a",
      ")","{"," ","n"," ","="," ","5",";"," ","r","e","t","u","r","n"," ","a",";"," ","}","\n","f",
      "(","n"," ","="," ","1",","," ","n"," ","="," ","2",")",";"," ","p","r","i","n","t","(","n",
      ")",";"," ","p","r","i","n","t","(","1",","," ","2",")",";"," ","f","(",")",";"," ","c","l",
      "o","c","k","(","n"," ","="," ","3",")",";"," ","p","r","i","n","t","(","f","(","4",")",")",
      ";"," ","p","r","i","n","t","(","n",")",";">>

\*   class C { constructor(){ print(1); } } C(); print(2); let c = new C(); c();
SrcNoNew ==
    <<"c","l","a","s","s"," ","C"," ","{"," ","c","o","n","s","t","r","u","c","t","o","r","(",")",
      "{"," ","p","r","i","n","t","(","1",")",";"," ","}"," ","}"," ","C","(",")",";"," ","p","r",
      "i","n","t","(","2",")",";"," ","l","e","t"," ","c"," ","="," ","n","e","w"," ","C","(",")",
      ";"," ","c","(",")",";">>

\*   { function f(){ return a; } let a = 1; print(f()); } print(zz);
SrcForward ==
    <<"{"," ","f","u","n","c","t","i","o","n"," ","f","(",")","{"," ","r","e","t","u","r","n"," ",
      "a",";"," ","}"," ","l","e","t"," ","a"," ","="," ","1",";"," ","p","r","i","n","t","(","f",
      "(",")",")",";"," ","}"," ","p","r","i","n","t","(","z","z",")",";">>

\*   print(1); { let a = 1; { let a = a; print(a); } }
SrcSelfInit ==
    <<"p","r","i","n","t","(","1",")",";"," ","{"," ","l","e","t"," ","a"," ","="," ","1",";"," ",
      "{"," ","l","e","t"," ","a"," ","="," ","a",";"," ","p","r","i","n","t","(","a",")",";"," ",
      "}"," ","}">>

\*   function f(){ let b = b + 1; return b; } print(f());
SrcSelfInitFn ==
    <<"f","u","n","c","t","i","o","n"," ","f","(",")","{"," ","l","e","t"," ","b"," ","="," ","b",
      " ","+"," ","1",";"," ","r","e","t","u","r","n"," ","b",";"," ","}"," ","p","r","i","n","t",
      "(","f","(",")",")",";">>

\*   print(2); "abc
SrcUnterminated ==
    <<"p","r","i","n","t","(","2",")",";"," ","\"","a","b","c">>

\*   class K { m(a){ return a; } } let k = new K(); let n = 0;
\*   k.m(n = 1, n = 2); k.m(); print(n); print(k.m(3));
SrcArityMethod ==
    <<"c","l","a","s","s"," ","K"," ","{"," ","m","(","a",")","{"," ","r","e","t","u","r","n"," ",
      "a",";"," ","}"," ","}"," ","l","e","t"," ","k"," ","="," ","n","e","w"," ","K","(",")",";",
      " ","l","e","t"," ","n"," ","="," ","0",";","\n","k",".","m","(","n"," ","="," ","1",","," ",
      "n"," ","="," ","2",")",";"," ","k",".","m","(",")",";"," ","p","r","i","n","t","(","n",")",
      ";"," ","p","r","i","n","t","(","k",".","m","(","3",")",")",";">>

\*   print(1); /* x
SrcOpenComment ==
    <<"p","r","i","n","t","(","1",")",";"," ","/","*"," ","x">>

\*   print(1.5); print(30); print(2.50);
SrcFraction ==
    <<"p","r","i","n","t","(","1",".","5",")",";"," ","p","r","i","n","t","(","3","0",")",";"," ",
      "p","r","i","n","t","(","2",".","5","0",")",";">>

\*   function f(n){ if (n) { return; } return 0; } { let z = 5; print(f(0)); print(z); f(1); print(z); }
SrcBareReturn ==
    <<"f","u","n","c","t","i","o","n"," ","f","(","n",")","{"," ","i","f"," ","(","n",")"," ","{",
      " ","r","e","t","u","r","n",";"," ","}"," ","r","e","t","u","r","n"," ","0",";"," ","}"," ",
      "{"," ","l","e","t"," ","z"," ","="," ","5",";"," ","p","r","i","n","t","(","f","(","0",")",
      ")",";"," ","p","r","i","n","t","(","z",")",";"," ","f","(","1",")",";"," ","p","r","i","n",
      "t","(","z",")",";"," ","}">>

\*   class K { m(){ return 1; } n(){ return m; } w(){ return this; } }
\*   let m = 5; let k = new K(); print(k.n()); k.w(); { if (m) let y = 2; print(y); }
SrcMethodName ==
    <<"c","l","a","s","s"," ","K"," ","{"," ","m","(",")","{"," ","r","e","t","u","r","n"," ","1",
      ";"," ","}"," ","n","(",")","{"," ","r","e","t","u","r","n"," ","m",";"," ","}"," ","w","(",
      ")","{"," ","r","e","t","u","r","n"," ","t","h","i","s",";"," ","}"," ","}","\n","l","e","t",
      " ","m"," ","="," ","5",";"," ","l","e","t"," ","k"," ","="," ","n","e","w"," ","K","(",")",
      ";"," ","p","r","i","n","t","(","k",".","n","(",")",")",";"," ","k",".","w","(",")",";"," ",
      "{"," ","i","f"," ","(","m",")"," ","l","e","t"," ","y"," ","="," ","2",";"," ","p","r","i",
      "n","t","(","y",")",";"," ","}">>

\*   function f(n){ if (n) { { return n + 1; } } return; }
\*   function g(){ print(f(1)); return f(0); }
\*   print(g()); { return 5; } print(3); return; print(4);
SrcReturn ==
    <<"f","u","n","c","t","i","o","n"," ","f","(","n",")","{"," ","i","f"," ","(","n",")"," ","{",
      " ","{"," ","r","e","t","u","r","n"," ","n"," ","+"," ","1",";"," ","}"," ","}"," ","r","e",
      "t","u","r","n",";"," ","}","\n","f","u","n","c","t","i","o","n"," ","g","(",")","{"," ","p",
      "r","i","n","t","(","f","(","1",")",")",";"," ","r","e","t","u","r","n"," ","f","(","0",")",
      ";"," ","}","\n","p","r","i","n","t","(","g","(",")",")",";"," ","{"," ","r","e","t","u","r",
      "n"," ","5",";"," ","}"," ","p","r","i","n","t","(","3",")",";"," ","r","e","t","u","r","n",
      ";"," ","p","r","i","n","t","(","4",")",";">>

\*   { let a = 1; let a = 2; print(a); }
\*   { class K { m(){ return 1; } } class K { m(){ return 2; } } print(3); }
\*   { let f = 1; function f(){ return 2; } print(f); }
SrcRedeclare ==
    <<"{"," ","l","e","t"," ","a"," ","="," ","1",";"," ","l","e","t"," ","a"," ","="," ","2",";",
      " ","p","r","i","n","t","(","a",")",";"," ","}","\n","{"," ","c","l","a","s","s"," ","K"," ",
      "{"," ","m","(",")","{"," ","r","e","t","u","r","n"," ","1",";"," ","}"," ","}"," ","c","l",
      "a","s","s"," ","K"," ","{"," ","m","(",")","{"," ","r","e","t","u","r","n"," ","2",";"," ",
      "}"," ","}"," ","p","r","i","n","t","(","3",")",";"," ","}","\n","{"," ","l","e","t"," ","f",
      " ","="," ","1",";"," ","f","u","n","c","t","i","o","n"," ","f","(",")","{"," ","r","e","t",
      "u","r","n"," ","2",";"," ","}"," ","p","r","i","n","t","(","f",")",";"," ","}">>

\*   class P { constructor(){ this.n = 1; } }
\*   let x = 8; x += 2; x -= 1; x /= 3; print(x); let p = new P(); p.n += 2; print(p.n);
SrcCompound ==
    <<"c","l","a","s","s"," ","P"," ","{"," ","c","o","n","s","t","r","u","c","t","o","r","(",")",
      "{"," ","t","h","i","s",".","n"," ","="," ","1",";"," ","}"," ","}","\n","l","e","t"," ","x",
      " ","="," ","8",";"," ","x"," ","+","="," ","2",";"," ","x"," ","-","="," ","1",";"," ","x",
      " ","/","="," ","3",";"," ","p","r","i","n","t","(","x",")",";"," ","l","e","t"," ","p"," ",
      "="," ","n","e","w"," ","P","(",")",";"," ","p",".","n"," ","+","="," ","2",";"," ","p","r",
      "i","n","t","(","p",".","n",")",";">>

\*   let x = 8; x *= 2; print(x);
SrcMulAssign ==
    <<"l","e","t"," ","x"," ","="," ","8",";"," ","x"," ","*","="," ","2",";"," ","p","r","i","n",
      "t","(","x",")",";">>

\*   let t = true; print(t); print(false); print(none);
SrcKeywords ==
    <<"l","e","t"," ","t"," ","="," ","t","r","u","e",";"," ","p","r","i","n","t","(","t",")",";",
      " ","p","r","i","n","t","(","f","a","l","s","e",")",";"," ","p","r","i","n","t","(","n","o",
      "n","e",")",";">>

\*   function u(){ }
\*   if ("") print(1); else print(2);
\*   if ("a") print(3); if (0) print(4); else print(5); if (none) print(6);
\*   print("" ? 7 : 8); print(!""); print(!0); print(!2); print(!"a"); print(!u());
\*   let i = 1; while (i) { i = i - 1; }
SrcTruthy ==
    <<"f","u","n","c","t","i","o","n"," ","u","(",")","{"," ","}","\n","i","f"," ","(","\"","\"",
      ")"," ","p","r","i","n","t","(","1",")",";"," ","e","l","s","e"," ","p","r","i","n","t","(",
      "2",")",";","\n","i","f"," ","(","\"","a","\"",")"," ","p","r","i","n","t","(","3",")",";",
      " ","i","f"," ","(","0",")"," ","p","r","i","n","t","(","4",")",";"," ","e","l","s","e"," ",
      "p","r","i","n","t","(","5",")",";"," ","i","f"," ","(","n","o","n","e",")"," ","p","r","i",
      "n","t","(","6",")",";","\n","p","r","i","n","t","(","\"","\""," ","?"," ","7"," ",":"," ",
      "8",")",";"," ","p","r","i","n","t","(","!","\"","\"",")",";"," ","p","r","i","n","t","(","!",
      "0",")",";"," ","p","r","i","n","t","(","!","2",")",";"," ","p","r","i","n","t","(","!","\"",
      "a","\"",")",";"," ","p","r","i","n","t","(","!","u","(",")",")",";","\n","l","e","t"," ","i",
      " ","="," ","1",";"," ","w","h","i","l","e"," ","(","i",")"," ","{"," ","i"," ","="," ","i",
      " ","-"," ","1",";"," ","}">>

\*   function f(){ return 1; }
\*   let x = 4; print(++x); print(--x); ++(x); --f(); print(x); print(++5); print(--"a");
SrcStep ==
    <<"f","u","n","c","t","i","o","n"," ","f","(",")","{"," ","r","e","t","u","r","n"," ","1",";",
      " ","}","\n","l","e","t"," ","x"," ","="," ","4",";"," ","p","r","i","n","t","(","+","+","x",
      ")",";"," ","p","r","i","n","t","(","-","-","x",")",";"," ","+","+","(","x",")",";"," ","-",
      "-","f","(",")",";"," ","p","r","i","n","t","(","x",")",";"," ","p","r","i","n","t","(","+",
      "+","5",")",";"," ","p","r","i","n","t","(","-","-","\"","a","\"",")",";">>

\*   function f(){ let a = 1; print(b); }
\*   f();
\*   let c = 2;
\*   { { print(d); } }
\*   let e = 3; print(c);
SrcRecover ==
    <<"f","u","n","c","t","i","o","n"," ","f","(",")","{"," ","l","e","t"," ","a"," ","="," ","1",
      ";"," ","p","r","i","n","t","(","b",")",";"," ","}","\n","f","(",")",";","\n","l","e","t"," ",
      "c"," ","="," ","2",";","\n","{"," ","{"," ","p","r","i","n","t","(","d",")",";"," ","}"," ",
      "}","\n","l","e","t"," ","e"," ","="," ","3",";"," ","p","r","i","n","t","(","c",")",";">>

\*   { function f(){ a = 5; }
\*   let a = 1; f(); print(a); }
\*   print(a);
SrcForwardWrite ==
    <<"{"," ","f","u","n","c","t","i","o","n"," ","f","(",")","{"," ","a"," ","="," ","5",";"," ",
      "}","\n","l","e","t"," ","a"," ","="," ","1",";"," ","f","(",")",";"," ","p","r","i","n","t",
      "(","a",")",";"," ","}","\n","p","r","i","n","t","(","a",")",";">>

\*   let x = 1;
\*   x++
\*   print(x)
SrcNoSemicolon ==
    <<"l","e","t"," ","x"," ","="," ","1",";","\n","x","+","+","\n","p","r","i","n","t","(","x",")">>

\*   { let a = 1; { a = 2; }
\*   function g(b){ return a + b; }
\*   class K { m(){ return this; } } }
SrcScopes ==
    <<"{"," ","l","e","t"," ","a"," ","="," ","1",";"," ","{"," ","a"," ","="," ","2",";"," ","}",
      "\n","f","u","n","c","t","i","o","n"," ","g","(","b",")","{"," ","r","e","t","u","r","n"," ",
      "a"," ","+"," ","b",";"," ","}","\n","c","l","a","s","s"," ","K"," ","{"," ","m","(",")","{",
      " ","r","e","t","u","r","n"," ","t","h","i","s",";"," ","}"," ","}"," ","}">>

Sources ==
    {SrcShadowing, SrcSuper, SrcComment, SrcUnexpected, SrcParseError,
     SrcClosure, SrcCounter, SrcThisArgs, SrcThisBody, SrcNewCall, SrcArity,
     SrcNoNew, SrcForward, SrcSelfInit, SrcSelfInitFn, SrcUnterminated, SrcArityMethod,
     SrcOpenComment, SrcFraction, SrcBareReturn, SrcMethodName, SrcReturn, SrcRedeclare,
     SrcCompound, SrcMulAssign, SrcKeywords, SrcTruthy, SrcStep, SrcRecover, SrcForwardWrite,
     SrcNoSemicolon, SrcScopes}

(***************************************************************************)
(* main()                                                                  *)
(***************************************************************************)
\* how far past the end of the text the cursor of a comment that is never closed is followed
MaxOverrun == 2

\* the exit status of the process once main() has returned (rejected = FALSE) or thrown
\* (rejected = TRUE): nothing in the program assigns process.exitCode or calls process.exit,
\* so a run whose promise resolves exits with 0; what a rejection nobody handles does to the
\* exit status is up to the host
ProcessExit(rejected) == IF rejected THEN {0, 1} ELSE {0}

Init ==
    /\ \/ argv = <<"node", "main">> /\ source = <<>>
       \/ argv = <<"node", "main", "script">> /\ source \in Sources
    /\ pc = "main"
    /\ start = 0
    /\ current = 0
    /\ row = 1
    /\ col = 1
    /\ tokens = <<>>
    /\ reported = <<>>
    /\ pcur = 0
    /\ hasError = FALSE
    /\ statements = <<>>
    /\ bindings = EmptyMap
    /\ heap = InitialHeap
    /\ stmtIndex = 1
    /\ uncaught = NoException
    /\ resolutions = <<>>
    /\ scopes = [visits |-> <<>>, uses |-> <<>>, stack |-> <<>>, ids |-> <<>>,
                 returned |-> FALSE]
    /\ exitCode = -1

\* main() up to new Lexer(...): without a script path it prints a line and returns
Main ==
    /\ pc = "main"
    /\ IF Len(argv) = 2
       THEN /\ pc' = "done"
            /\ exitCode' \in ProcessExit(FALSE)
       ELSE /\ pc' = "lex"
            /\ UNCHANGED exitCode
    /\ UNCHANGED <<argv, source, start, current, row, col, tokens, reported, pcur, hasError,
                   statements, bindings, heap, stmtIndex, uncaught, resolutions, scopes>>

SetLexer(L) ==
    /\ start' = L.start
    /\ current' = L.current
    /\ row' = L.row
    /\ col' = L.col
    /\ tokens' = L.tokens
    /\ reported' = L.reported

\* one iteration of while (!this.isEOF()) in lex()
LexIteration ==
    /\ pc = "lex"
    /\ ~Lexer_isEOF(LexerState)
    /\ SetLexer(Lexer_lexIteration(LexerState))
    /\ pc' = IF Lexer_opensComment(LexerState) THEN "lexComment" ELSE "lex"
    /\ UNCHANGED <<argv, source, pcur, hasError, statements, bindings, heap, stmtIndex, uncaught,
                   resolutions, scopes, exitCode>>

\* one iteration of while (!(peek() === '*' && peekNext() === '/')) in a block comment, or
\* the two advances that remove the closing */
LexCommentIteration ==
    /\ pc = "lexComment"
    /\ current < Len(source) + MaxOverrun
    /\ LET L == LexerState
       IN  IF ~(Lexer_peek(L) = "*" /\ Lexer_peekNext(L) = "/")
           THEN /\ SetLexer(Lexer_advance(IF Lexer_peek(L) = "\n"
                                          THEN [L EXCEPT !.row = @ + 1] ELSE L))
                /\ pc' = "lexComment"
           ELSE /\ SetLexer(Lexer_advance(Lexer_advance(L)))
                /\ pc' = "lex"
    /\ UNCHANGED <<argv, source, pcur, hasError, statements, bindings, heap, stmtIndex, uncaught,
                   resolutions, scopes, exitCode>>

\* the end of lex(): the EOF token; main() hands the tokens to a new Parser
LexEnd ==
    /\ pc = "lex"
    /\ Lexer_isEOF(LexerState)
    /\ SetLexer(Lexer_simple(LexerState, "EOF"))
    /\ pc' = "parse"
    /\ pcur' = 0
    /\ hasError' = FALSE
    /\ UNCHANGED <<argv, source, statements, bindings, heap, stmtIndex, uncaught, resolutions,
                   scopes, exitCode>>

\* one iteration of while (!this.isEOF()) in parse(): a statement, or report, flag and sync
ParseIteration ==
    /\ pc = "parse"
    /\ ~Parser_isEOF(pcur)
    /\ \E r \in {Parser_statement(pcur)} :
           IF r.ok
           THEN /\ statements' = Append(statements, r.node)
                /\ pcur' = r.cur
                /\ UNCHANGED <<reported, hasError>>
           ELSE /\ reported' = Append(reported, r.err)
                /\ hasError' = TRUE
                /\ pcur' = Parser_sync(r.cur)
                /\ UNCHANGED statements
    /\ UNCHANGED <<argv, source, pc, start, current, row, col, tokens, bindings, heap, stmtIndex,
                   uncaught, resolutions, scopes, exitCode>>

\* parse() returns; main() goes on to the resolver only if (!parser.hasError)
ParseEnd ==
    /\ pc = "parse"
    /\ Parser_isEOF(pcur)
    /\ IF ~hasError
       THEN /\ pc' = "resolve"
            /\ UNCHANGED exitCode
       ELSE /\ pc' = "done"
            /\ exitCode' \in ProcessExit(FALSE)
    /\ UNCHANGED <<argv, source, start, current, row, col, tokens, reported, pcur, hasError,
                   statements, bindings, heap, stmtIndex, uncaught, resolutions, scopes>>

\* resolver.resolve(): nothing in main() catches what it throws
Resolve ==
    /\ pc = "resolve"
    /\ \E R \in {Resolver_resolve(statements)} :
           /\ resolutions' = R.lookups
           /\ scopes' = [visits |-> R.visits, uses |-> R.uses, stack |-> R.stack,
                         ids |-> R.ids, returned |-> R.exc.kind = "none"]
           /\ IF R.exc.kind = "none"
              THEN /\ bindings' = R.bindings
                   /\ pc' = "interpret"
                   /\ UNCHANGED <<uncaught, exitCode>>
              ELSE /\ uncaught' = R.exc
                   /\ pc' = "crashed"
                   /\ exitCode' \in ProcessExit(TRUE)
                   /\ UNCHANGED bindings
    /\ UNCHANGED <<argv, source, start, current, row, col, tokens, reported, pcur, hasError,
                   statements, heap, stmtIndex>>

\* one iteration of for (const statement of statements) in interpret(): the statement, and
\* the catch that reports a TSLoxError or a return outside a function and rethrows the rest
Interpret ==
    /\ pc = "interpret"
    /\ stmtIndex <= Len(statements)
    /\ \E H1 \in {TSLoxInterpreter_accept(
                        Log(heap, [e |-> "statement", index |-> stmtIndex,
                                   cur |-> heap.currentEnvironment]),
                        statements[stmtIndex])} :
       LET caught == [H1 EXCEPT !.exc = NoException]
       IN  CASE H1.exc.kind = "none" ->
                    /\ heap' = H1
                    /\ pc' = "interpret"
                    /\ UNCHANGED <<reported, uncaught, exitCode>>
             [] H1.exc.kind = "TSLoxError" ->
                    /\ heap' = caught
                    /\ reported' = Append(reported, H1.exc.error)
                    /\ pc' = "interpret"
                    /\ UNCHANGED <<uncaught, exitCode>>
             [] H1.exc.kind = "ReturnStatementError" ->
                    /\ heap' = caught
                    /\ reported' = Append(reported,
                           TSLoxError("Runtime", H1.exc.returnStatement.returnTokenLocation,
                                      "cannot use return statement outside a function", <<>>))
                    /\ pc' = "interpret"
                    /\ UNCHANGED <<uncaught, exitCode>>
             [] H1.exc.kind = "TypeError" ->
                    /\ heap' = caught
                    /\ uncaught' = H1.exc
                    /\ pc' = "crashed"
                    /\ exitCode' \in ProcessExit(TRUE)
                    /\ UNCHANGED reported
             [] H1.exc.kind = "OutOfModel" ->
                    /\ heap' = caught
                    /\ uncaught' = H1.exc
                    /\ pc' = "outOfModel"
                    /\ UNCHANGED <<reported, exitCode>>
    /\ stmtIndex' = stmtIndex + 1
    /\ UNCHANGED <<argv, source, start, current, row, col, tokens, pcur, hasError, statements,
                   bindings, resolutions, scopes>>

\* interpret() returns and main() with it
Finish ==
    /\ pc = "interpret"
    /\ stmtIndex > Len(statements)
    /\ pc' = "done"
    /\ exitCode' \in ProcessExit(FALSE)
    /\ UNCHANGED <<argv, source, start, current, row, col, tokens, reported, pcur, hasError,
                   statements, bindings, heap, stmtIndex, uncaught, resolutions, scopes>>

Next ==
    \/ Main
    \/ LexIteration
    \/ LexCommentIteration
    \/ LexEnd
    \/ ParseIteration
    \/ ParseEnd
    \/ Resolve
    \/ Interpret
    \/ Finish

Spec == Init /\ [][Next]_vars

\* main() is the only thread of the process and nothing suspends it once the script is read:
\* whenever main() or lex() has a next step it takes it
LiveSpec == Spec /\ WF_vars(Main \/ LexIteration \/ LexCommentIteration \/ LexEnd)

(***************************************************************************)
(* Properties                                                              *)
(***************************************************************************)
trace == heap.trace

\* main() has returned or died
Terminated == pc \in {"done", "crashed", "outOfModel"}

\* C1: Shadowing.  For { let a=1; { let a=2; print(a); } print(a); } the values passed to
\* print are 2 (the nested block's a) and then 1 (the outer block's a).
C1_Shadowing ==
    (source = SrcShadowing /\ pc = "done") => heap.stdout = << <<"2">>, <<"1">> >>

\* the call in which event i happened was made after the scope of its function had exited
EscapedCall(i) ==
    /\ trace[i].call.fn # 0
    /\ ~trace[i].call.method
    /\ trace[i].call.escaped

\* C2: Closure capture.  In a call of a declared function made after the scope S of its
\* declaration has exited, every read and every write of a name whose nearest binding is
\* the one of S reaches the environment of S itself, not the variable of another scope.
C2_ClosureCapture ==
    \A i \in 1..Len(trace) :
        (/\ trace[i].e \in {"get", "set"}
         /\ EscapedCall(i)
         /\ trace[i].nearest = trace[i].call.closure)
        => trace[i].env = trace[i].call.closure

\* C3: Method binding.  Every evaluation of `this` during the body of an invocation i.m(...)
\* yields the instance i, whatever calls on other instances were made before it.
C3_MethodBinding ==
    \A i \in 1..Len(trace) :
        (trace[i].e = "this" /\ trace[i].call.receiver # 0)
        => (/\ trace[i].value.t = "LoxInstance"
            /\ trace[i].value.instance = trace[i].call.receiver)

HasSuper == \E k \in 1..Len(tokens) : tokens[k].type = "super"

\* C4: Inheritance.  A program whose method evaluates super.m() runs to completion without
\* an internal failure of the resolver or the evaluator, and class B extends A with greet
\* returning super.greet() + "B" prints AB for new B().greet().
C4_Inheritance ==
    /\ HasSuper => uncaught.kind = "none"
    /\ (source = SrcSuper /\ Terminated) => (pc = "done" /\ heap.stdout = << <<"A", "B">> >>)

\* C5: new C(args).m(args2) instantiates C and then invokes m on the fresh instance; no
\* Runtime error is raised when C is a class and m one of its methods.
C5_NewThenMethod ==
    (source = SrcNewCall /\ pc = "done") => (reported = <<>> /\ heap.stdout = << <<"7">> >>)

\* event i raised an exception that ended its top-level statement: the next event is the
\* Runtime error, and what follows up to the next top-level statement only leaves calls
RaisesAt(i) ==
    /\ i < Len(trace)
    /\ trace[i + 1].e = "throw"
    /\ trace[i + 1].error.type = "Runtime"
    /\ \A j \in (i + 2)..Len(trace) :
           trace[j].e # "leave" => \E k \in (i + 2)..j : trace[k].e = "statement"

ArityMismatch(i) ==
    /\ trace[i].e = "invoke"
    /\ trace[i].callee \in {"LoxCallableFn", "NativeLoxCallable"}
    /\ trace[i].arity # trace[i].given

\* C6: Arity enforcement.  A call of a user function, bound method or native with a number
\* of arguments other than its arity raises a Runtime error at once: no argument and no
\* statement of the body is evaluated, and no environment is modified.
C6_ArityEnforcement ==
    \A i \in 1..Len(trace) :
        ArityMismatch(i) => (RaisesAt(i) /\ trace[i + 1].envs = trace[i].envs)

C6_Witness ==
    /\ \E i \in 1..Len(trace) : ArityMismatch(i) /\ trace[i].callee = "NativeLoxCallable"
    /\ \E i \in 1..Len(trace) :
           ArityMismatch(i) /\ trace[i].callee = "LoxCallableFn" /\ trace[i].given > 0

\* C7: new requirement.  A plain call whose callee evaluates to a class raises a Runtime
\* error at once; no instance is created and no constructor runs.
C7_NewRequirement ==
    \A i \in 1..Len(trace) :
        (trace[i].e = "invoke" /\ trace[i].callee = "LoxClass")
        => (/\ RaisesAt(i)
            /\ trace[i + 1].instances = trace[i].instances
            /\ trace[i + 1].envs = trace[i].envs)

C7_Witness ==
    /\ pc = "done"
    /\ \E i \in 1..Len(trace) : trace[i].e = "invoke" /\ trace[i].callee = "LoxClass"

\* C8: Reading an identifier that has no hops entry raises "undefined variable" whenever
\* the global environment holds no binding for it, whatever the other environments of the
\* chain hold; it never yields a value.
C8_UndefinedGlobalRead ==
    \A i \in 1..Len(trace) :
        (trace[i].e = "get" /\ trace[i].hops = -1 /\ ~trace[i].globalHas)
        => trace[i].outcome.t = "error"

RECURSIVE ReadsName(_, _)
\* the expression holds a reference to the variable
ReadsName(expr, variableName) ==
    CASE expr.kind = "Literal" ->
            expr.value.type = "identifier" /\ expr.value.literalValue = variableName
      [] expr.kind \in {"Grouping", "Unary"} -> ReadsName(expr.expr, variableName)
      [] expr.kind = "Binary" ->
            ReadsName(expr.leftExpr, variableName) \/ ReadsName(expr.rightExpr, variableName)
      [] expr.kind = "Ternary" ->
            \/ ReadsName(expr.conditionalExpression, variableName)
            \/ ReadsName(expr.truthyExpression, variableName)
            \/ ReadsName(expr.falsyExpression, variableName)
      [] expr.kind = "Assignment" ->
            ReadsName(expr.lValue, variableName) \/ ReadsName(expr.rValue, variableName)
      [] expr.kind = "FunctionCall" ->
            \/ ReadsName(expr.calle, variableName)
            \/ \E k \in 1..Len(expr.args) : ReadsName(expr.args[k], variableName)
      [] expr.kind = "ClassInstantiation" -> ReadsName(expr.callExpression, variableName)
      [] expr.kind = "InstanceGet" -> ReadsName(expr.instance, variableName)
      [] OTHER -> FALSE

RECURSIVE SelfInitializes(_, _)
\* the statement holds, inside a block or function scope, a let declaration whose
\* initializer reads the name being declared
SelfInitializes(statement, scoped) ==
    CASE statement.kind = "VariableDeclarationStatement" ->
            /\ scoped
            /\ \E k \in 1..Len(statement.declarations) :
                   ReadsName(statement.declarations[k].initializer,
                             statement.declarations[k].identifier.literalValue)
      [] statement.kind = "BlockStatement" ->
            \E k \in 1..Len(statement.statements) : SelfInitializes(statement.statements[k], TRUE)
      [] statement.kind = "IfStatement" ->
            \/ SelfInitializes(statement.trueStatement, scoped)
            \/ SelfInitializes(statement.falseStatement, scoped)
      [] statement.kind = "WhileStatement" -> SelfInitializes(statement.body, scoped)
      [] statement.kind = "FunctionDeclarationStatement" -> SelfInitializes(statement.body, TRUE)
      [] statement.kind = "ClassDeclarationStatement" ->
            \E k \in 1..Len(statement.methods) : SelfInitializes(statement.methods[k], TRUE)
      [] OTHER -> FALSE

\* main() has called resolver.resolve()
ResolverRan == ~hasError /\ (pc = "interpret" \/ Terminated)

SelfInitializing == \E k \in 1..Len(statements) : SelfInitializes(statements[k], FALSE)

\* C9: Declaration-before-use.  When the resolver has run on a program (without super
\* expressions) that holds, inside a block or function scope, a let whose initializer reads
\* the declared name, it has raised the Syntax error "cannot use same variable for
\* initialization", and no statement of the program is evaluated.
C9_DeclarationBeforeUse ==
    (ResolverRan /\ SelfInitializing /\ ~HasSuper)
    => (/\ pc = "crashed"
        /\ uncaught.kind = "TSLoxError"
        /\ uncaught.error.type = "Syntax"
        /\ uncaught.error.message = "cannot use same variable for initialization"
        /\ trace = <<>>
        /\ heap = InitialHeap)

C9_Witness ==
    /\ pc = "crashed"
    /\ SelfInitializing
    /\ \E k \in 1..Len(statements) : statements[k].kind = "FunctionDeclarationStatement"

\* C10: If a Syntax error was reported, by the lexer or by the parser, the driver runs
\* neither the resolver nor the evaluator: no statement of the program is evaluated.
C10_SyntaxErrorStopsDriver ==
    (\E k \in 1..Len(reported) : reported[k].type = "Syntax")
    => (pc \notin {"resolve", "interpret"} /\ trace = <<>>)

\* C11: Exit status.  The process ends with a status other than zero whenever no script path
\* was given and whenever at least one error was reported during the run; it ends with status
\* zero only when a script was given and nothing was reported.
C11_ExitStatus ==
    exitCode # -1 => (exitCode = 0 <=> (Len(argv) = 3 /\ reported = <<>>))

\* lex() has returned
LexReturned == pc \in {"parse", "resolve", "interpret", "done", "crashed", "outOfModel"}

\* C12: Lexer totality.  For every script text, also one with a string or a block comment
\* that is never closed or with unexpected characters, lex() returns, and the tokens it
\* returns hold exactly one EOF token, the last one.
C12_LexerTotality ==
    /\ (Len(argv) = 3) ~> LexReturned
    /\ []((Len(argv) = 3 /\ LexReturned)
          => /\ tokens # <<>>
             /\ \A k \in 1..Len(tokens) : tokens[k].type = "EOF" <=> k = Len(tokens))

RECURSIVE DropTrailing(_, _)
\* s without the characters of cs at its end
DropTrailing(s, cs) ==
    IF s # <<>> /\ s[Len(s)] \in cs THEN DropTrailing(SubSeq(s, 1, Len(s) - 1), cs) ELSE s

\* a numeric lexeme without the zeros that end its fraction, and without the point when no
\* fraction is left: 2.50 is 2.5, 3.0 is 3, 30 is 30
Canonical(lexeme) ==
    IF \E k \in 1..Len(lexeme) : lexeme[k] = "."
    THEN DropTrailing(DropTrailing(lexeme, {"0"}), {"."})
    ELSE lexeme

\* the iteration of lex() that has just ended read a number: its lexeme is the text from
\* start to current and its token is the last one
NumberLexed == pc = "lex" /\ start < current /\ Lexer_isDigit(charAt(start))

\* C13: Round trip of numeric literals.  The value stored in a NUMBER token, written back as
\* text, is the lexeme up to the zeros that end its fraction: a fraction that is not zero is
\* kept.
C13_NumberRoundTrip ==
    NumberLexed
    => /\ tokens[Len(tokens)].type = "number"
       /\ IntToString(tokens[Len(tokens)].literalValue) = Canonical(substring(start, current))

\* the 1-based row and column of the character at 0-based offset o of the script text
Position(o) ==
    LET newlines == {k \in 1..o : source[k] = "\n"}
        lastNewline == IF newlines = {} THEN 0 ELSE CHOOSE k \in newlines : \A j \in newlines : j <= k
    IN  [row |-> 1 + Cardinality(newlines), col |-> o - lastNewline + 1]

\* C14: Token locations.  Every token the lexer emits carries the 1-based row and column of
\* the first character of its lexeme: operators of one and of two characters, identifiers,
\* numbers, keywords, strings that span lines and tokens after a block comment of several
\* lines.  (The lexeme of the token an iteration of lex() adds begins at start.)
C14_TokenLocation ==
    [][(pc = "lex" /\ Len(tokens') = Len(tokens) + 1 /\ tokens'[Len(tokens')].type # "EOF")
       => tokens'[Len(tokens')].location = Position(start')]_vars

\* the scopes of a lookup's stack that map its name to defined, as indices from the bottom
DefinedIn(lookup) ==
    {i \in 1..Len(lookup.stack) :
        MapHas(lookup.stack[i], lookup.name) /\ lookup.stack[i][lookup.name] = TRUE}

\* C15: Resolver binding correctness.  For every reference for which some scope of the stack
\* maps the name to defined, the hops recorded are the number of scopes pushed above the
\* innermost such scope: the stack is searched from the top down and the first match wins.
C15_ResolverBinding ==
    \A k \in 1..Len(resolutions) :
        LET lookup == resolutions[k]
        IN  DefinedIn(lookup) # {}
            => \E i \in DefinedIn(lookup) :
                   /\ \A j \in DefinedIn(lookup) : j <= i
                   /\ lookup.depth = Len(lookup.stack) - i

\* C16: Environment register across calls.  Whenever a call of a user function or method
\* returns to its caller, because the body ran to its end, because of return with a value or
\* because of a bare return (also one inside nested blocks of the body), the current
\* environment is again the environment that was current just before the call.
C16_EnvironmentRestored ==
    \A i \in 1..Len(trace) :
        (trace[i].e = "leave" /\ trace[i].how \in {"end", "return value", "return"})
        => trace[i].cur = trace[i].call.old

\* C17: Hops reach a binding.  For every reference node (identifier or this) that has a hops
\* entry h, each time the node is evaluated the environment reached by skipping exactly h
\* parents from the current environment exists and holds a binding of the name; so for an
\* identifier in a method body that is the name of a method of the class, and for a name
\* declared by a let that is the body of an if or a while without braces.
C17_HopsReachBinding ==
    \A i \in 1..Len(trace) :
        (trace[i].e \in {"get", "this"} /\ trace[i].hops # -1) => trace[i].envHas

\* the return statements executed inside a call, and those executed while no call is active
ReturnsInCall ==
    {i \in 1..Len(trace) :
        trace[i].e = "exec" /\ trace[i].kind = "ReturnStatement" /\ trace[i].depth > 0}

ReturnsOutside ==
    {i \in 1..Len(trace) :
        trace[i].e = "exec" /\ trace[i].kind = "ReturnStatement" /\ trace[i].depth = 0}

\* the reports of a return outside a function
ReturnReports ==
    {k \in 1..Len(reported) :
        reported[k].message = "cannot use return statement outside a function"}

\* the index of the top-level statement during which event i was recorded
StatementOf(i) ==
    LET before == {m \in 1..i : trace[m].e = "statement"}
    IN  trace[CHOOSE m \in before : \A n \in before : n <= m].index

\* event j is the end of the call that was innermost at the return i: no statement of that
\* call and no end of a call that encloses it lies between
EndsInnermostCall(i, j) ==
    /\ trace[j].e = "leave"
    /\ trace[j].depth = trace[i].depth
    /\ trace[j].raised # "ReturnStatementError"
    /\ \A m \in (i + 1)..(j - 1) :
           trace[m].e \in {"exec", "leave"} => trace[m].depth > trace[i].depth

\* C18: Return unwind.  A return executed inside a function or method body, at any block
\* depth, ends exactly the innermost active call and is never sent to the error reporter; a
\* return executed while no call is active is reported exactly once as a Runtime error located
\* at the return token, and the top-level statements that follow are still executed.
C18_ReturnUnwind ==
    /\ \A i \in ReturnsInCall : \E j \in (i + 1)..Len(trace) : EndsInnermostCall(i, j)
    /\ Cardinality(ReturnReports) = Cardinality(ReturnsOutside)
    /\ \A k \in ReturnReports :
           /\ reported[k].type = "Runtime"
           /\ \E i \in ReturnsOutside : trace[i].location = reported[k].location
           /\ \E t \in 1..Len(tokens) :
                  tokens[t].type = "return" /\ tokens[t].location = reported[k].location
    /\ \A i \in ReturnsOutside :
           /\ stmtIndex = StatementOf(i) + 1 => pc = "interpret"
           /\ (stmtIndex > StatementOf(i) + 1 /\ StatementOf(i) < Len(statements))
              => \E m \in (i + 1)..Len(trace) :
                     trace[m].e = "statement" /\ trace[m].index = StatementOf(i) + 1

\* a run in which a return inside nested blocks of a function body and a bare return have
\* each ended a call, and two returns outside any call have been reported, with statements
\* executed after them
C18_Witness ==
    /\ pc = "done"
    /\ \E i \in ReturnsInCall : \E j \in (i + 1)..Len(trace) :
           EndsInnermostCall(i, j) /\ trace[j].how = "return value" /\ trace[i].cur # trace[j].call.frame
    /\ \E i \in ReturnsInCall : \E j \in (i + 1)..Len(trace) :
           EndsInnermostCall(i, j) /\ trace[j].how = "return"
    /\ Cardinality(ReturnReports) = 2
    /\ \E i \in ReturnsOutside : \E m \in (i + 1)..Len(trace) : trace[m].e = "print"

\* event i is a declaration of a name that the current environment, not the global one,
\* binds already
Redeclares(i) ==
    /\ trace[i].e = "declare"
    /\ trace[i].bound
    /\ trace[i].env # GlobalEnvironment

\* C19: No redeclaration in the same scope.  Executing a declaration statement (let, function
\* or class) of a name that the current environment, when it is not the global one, binds
\* already raises a Runtime error and leaves the binding of the name as it was.
C19_NoRedeclaration ==
    \A i \in 1..Len(trace) :
        Redeclares(i)
        => /\ RaisesAt(i)
           /\ MapHas(trace[i + 1].envs[trace[i].env].declarations, trace[i].name)
           /\ trace[i + 1].envs[trace[i].env].declarations[trace[i].name] = trace[i].binding

\* parse() has returned
ParseReturned == pc \in {"resolve", "interpret", "done", "crashed", "outOfModel"}

\* the operator of each compound assignment token
CompoundOperator == ("+=" :> "+") @@ ("-=" :> "-") @@ ("*=" :> "*") @@ ("/=" :> "/")

\* tokens a..k-1 are the lvalue (x, or x.y) of a top-level statement x op= e; whose operator
\* is token k
CompoundStatementAt(a, k) ==
    /\ tokens[k].type \in DOMAIN CompoundOperator
    /\ \/ a = k - 1 /\ tokens[a].type = "identifier"
       \/ /\ a = k - 3
          /\ tokens[a].type = "identifier"
          /\ tokens[a + 1].type = "."
          /\ tokens[a + 2].type = "identifier"
    /\ a = 1 \/ tokens[a - 1].type \in {";", "}"}
    /\ Cardinality({t \in 1..a : tokens[t].type = "{"})
         = Cardinality({t \in 1..a : tokens[t].type = "}"})

\* statement is  x = x op e;  for the lvalue that begins at token a and the compound
\* operator at token k: an Assignment to x of Binary(x, op, e)
IsAssignmentOfBinary(statement, a, k) ==
    /\ statement.kind = "ExpressionStatement"
    /\ statement.expression.kind = "Assignment"
    /\ statement.expression.lValue = Parser_ternary(a - 1).node
    /\ statement.expression.rValue.kind = "Binary"
    /\ statement.expression.rValue.leftExpr = Parser_ternary(a - 1).node
    /\ statement.expression.rValue.operator.type = CompoundOperator[tokens[k].type]
    /\ statement.expression.rValue.rightExpr = Parser_assignment(k).node

\* C20: Compound assignment.  For each operator op of + - * / and every lvalue x (identifier
\* or property access) the statement  x op= e;  parses without error into the tree of
\* x = x op e;  an Assignment whose rvalue is Binary(x, op, e).
C20_CompoundAssignment ==
    (Len(argv) = 3 /\ ParseReturned)
    => \A k \in 2..Len(tokens) : \A a \in {k - 3, k - 1} \cap (1..Len(tokens)) :
           CompoundStatementAt(a, k)
           => \E j \in 1..Len(statements) : IsAssignmentOfBinary(statements[j], a, k)

\* the reserved words and the token kind of each
KeywordKind ==
    (<<"f","o","r">> :> "for") @@
    (<<"t","r","u","e">> :> "TRUE") @@
    (<<"f","a","l","s","e">> :> "FALSE") @@
    (<<"n","o","n","e">> :> "none") @@
    (<<"l","e","t">> :> "let") @@
    (<<"i","f">> :> "if") @@
    (<<"e","l","s","e">> :> "else") @@
    (<<"w","h","i","l","e">> :> "while") @@
    (<<"f","u","n","c","t","i","o","n">> :> "function") @@
    (<<"r","e","t","u","r","n">> :> "return") @@
    (<<"c","l","a","s","s">> :> "class") @@
    (<<"n","e","w">> :> "new") @@
    (<<"t","h","i","s">> :> "this") @@
    (<<"e","x","t","e","n","d","s">> :> "extends") @@
    (<<"s","u","p","e","r">> :> "super")

\* the iteration of lex() that has just ended read a word: its lexeme is the text from start
\* to current and its token is the last one
WordLexed == pc = "lex" /\ start < current /\ charAt(start) \in Letters

\* C21: Reserved words.  Each of for, true, false, none, let, if, else, while, function,
\* return, class, new, this, extends and super, written in that case, gets the token kind of
\* its own and never IDENTIFIER; constructor gets IDENTIFIER.
C21_ReservedWords ==
    WordLexed
    => LET lexeme == substring(start, current)
           token == tokens[Len(tokens)]
       IN  /\ lexeme \in DOMAIN KeywordKind
              => (token.type = KeywordKind[lexeme] /\ token.type # "identifier")
           /\ lexeme = CONSTRUCTOR => token.type = "identifier"

\* C22: Truthiness.  Wherever a condition is tested (if, while, ternary, unary !), exactly
\* none, the number 0 and false count as falsy (all three are the number 0 when evaluated);
\* every other value, and so the value of the empty string literal "", counts as truthy.
C22_Truthiness ==
    \A i \in 1..Len(trace) :
        trace[i].e = "test"
        => (trace[i].passed <=> (trace[i].emptyString \/ trace[i].value # Num(0)))

\* C23 as the specification states it: unary ! applied to an operand value v evaluates to 1
\* if v is truthy and to 0 otherwise.
C23_NotAsStated ==
    \A i \in 1..Len(trace) :
        trace[i].e = "not"
        => trace[i].result = (IF trace[i - 1].passed THEN Num(1) ELSE Num(0))

\* C23, amended: unary ! applied to an operand value v evaluates to 0 if v passes the test of
\* a condition (the test that if, while and the ternary apply), and to 1 otherwise.
C23_Not ==
    \A i \in 1..Len(trace) :
        trace[i].e = "not"
        => /\ trace[i - 1].e = "test"
           /\ trace[i - 1].where = "!"
           /\ trace[i - 1].value = trace[i].value
           /\ trace[i].result = (IF trace[i - 1].passed THEN Num(0) ELSE Num(1))

\* ! has been applied to a number that is not 0, to a string, to 0 and to the value of a call
\* that returns nothing
C23_Witness ==
    /\ \E i \in 1..Len(trace) :
           trace[i].e = "not" /\ trace[i].value = Num(2) /\ trace[i].result = Num(0)
    /\ \E i \in 1..Len(trace) :
           trace[i].e = "not" /\ trace[i].value.t = "string" /\ trace[i].result = Num(0)
    /\ \E i \in 1..Len(trace) :
           trace[i].e = "not" /\ trace[i].value = Num(0) /\ trace[i].result = Num(1)
    /\ \E i \in 1..Len(trace) :
           trace[i].e = "not" /\ trace[i].value.t = "undefined" /\ trace[i].result = Num(1)

\* event i is the evaluation of prefix ++e or --e for an e that is not an identifier
StepsNonIdentifier(i) ==
    trace[i].e = "step" /\ ~trace[i].postfix /\ ~trace[i].identifier

\* C24: Increment and decrement operand check.  Evaluating prefix ++e or --e where e is not
\* an identifier (a number or string literal, a grouping, a call, a property access) raises
\* a Runtime error: it yields no value and modifies no environment.
C24_StepOperandCheck ==
    \A i \in 1..Len(trace) :
        StepsNonIdentifier(i) => (RaisesAt(i) /\ trace[i + 1].envs = trace[i].envs)

\* where parsing resumes after an error raised at cursor c: just after the first ; or } at or
\* after c, or at the EOF token when there is none
ResumeAt(c) ==
    LET stops == {k \in c..(Len(tokens) - 2) : tokenAt(k).type \in {";", "}"}}
    IN  IF stops = {} THEN Len(tokens) - 1
        ELSE (CHOOSE k \in stops : \A j \in stops : k <= j) + 1

\* C25: Parser error recovery.  When statement() raises a Syntax error during parse(),
\* exactly one error is reported for it, hasError becomes true and stays true, parsing goes on
\* at the token just after the first ; or } at or after the position of the error (or stops
\* at EOF), and every statement parsed before the error is still in the list.
C25_ParserRecovery ==
    [][/\ (pc = "parse" /\ ~Parser_isEOF(pcur) /\ ~Parser_statement(pcur).ok)
          => /\ reported' = Append(reported, Parser_statement(pcur).err)
             /\ reported'[Len(reported')].type = "Syntax"
             /\ hasError'
             /\ pcur' = ResumeAt(Parser_statement(pcur).cur)
             /\ statements' = statements
             /\ pc' = "parse"
       /\ (pc \in {"parse", "resolve", "interpret"} /\ hasError) => hasError'
       /\ (pc = "parse" /\ Parser_isEOF(pcur)) => statements' = statements]_vars

\* parse() has returned after an error between two statements: one report, and both
\* statements, the one before the error and the one after it, are in the list
C25_Witness ==
    /\ source = SrcMulAssign
    /\ pc = "done"
    /\ hasError
    /\ Len(reported) = 1
    /\ Len(statements) = 2
    /\ statements[1].kind = "VariableDeclarationStatement"
    /\ statements[2].kind = "ExpressionStatement"

RECURSIVE Parent(_, _, _)
\* the environment h parents above env in the chain of envs, 0 when the chain ends before
Parent(envs, env, h) ==
    IF h = 0 \/ env = 0 THEN env ELSE Parent(envs, envs[env].outerScope, h - 1)

\* event i is a write to an identifier whose reference node has a hops entry
ResolvedWrite(i) == trace[i].e = "set" /\ trace[i].hops # -1

\* the return of the call of assign that event i announces
AssignedAfter(i) ==
    CHOOSE j \in (i + 1)..Len(trace) :
        trace[j].e = "assigned" /\ \A k \in (i + 1)..(j - 1) : trace[k].e # "assigned"

\* the local maps m and n agree on every name but variableName
SameBut(m, n, variableName) ==
    /\ DOMAIN m \ {variableName} = DOMAIN n \ {variableName}
    /\ \A other \in DOMAIN m \ {variableName} : m[other] = n[other]

\* C26: Frame of a resolved write.  An assignment (or ++ / --) to an identifier whose
\* reference node has a hops entry h changes only the local map of the environment exactly h
\* parents above the current environment, and only the entry of that name; the local maps of
\* all other environments, the global one included, are unchanged.
C26_WriteFrame ==
    \A i \in 1..Len(trace) :
        ResolvedWrite(i) =>
            LET before == trace[i].envs
                after  == trace[AssignedAfter(i)].envs
                target == Parent(before, trace[i].cur, trace[i].hops)
            IN  /\ Len(after) = Len(before)
                /\ \A k \in 1..Len(before) :
                       /\ after[k].outerScope = before[k].outerScope
                       /\ k # target => after[k].declarations = before[k].declarations
                       /\ k = target => SameBut(before[k].declarations,
                                                after[k].declarations, trace[i].name)

\* a write with one or more hops has changed, in an environment that is not the global one,
\* the value of the name
C26_Witness ==
    \E i \in 1..Len(trace) :
        /\ ResolvedWrite(i) /\ trace[i].hops >= 1
        /\ trace[i].envs[Parent(trace[i].envs, trace[i].cur, trace[i].hops)].outerScope # 0
        /\ trace[AssignedAfter(i)].envs # trace[i].envs

\* event j starts the top-level statement that follows one in which a Runtime error was raised
AfterRuntimeError(j) ==
    /\ trace[j].e = "statement"
    /\ \E m \in 1..(j - 1) :
           /\ trace[m].e = "statement" /\ trace[m].index = trace[j].index - 1
           /\ \E k \in (m + 1)..(j - 1) : trace[k].e = "throw" /\ trace[k].error.type = "Runtime"

\* C27: After a Runtime error raised inside a top-level statement has been reported (from
\* inside nested blocks or from inside the body of a function the statement calls), the next
\* top-level statement is executed with the global environment as the current environment,
\* so a top-level let that follows defines its variable in the global environment.
C27_GlobalAfterError ==
    \A j \in 1..Len(trace) :
        AfterRuntimeError(j) =>
            /\ heap.envs[trace[j].cur].outerScope = 0
            /\ \A k \in (j + 2)..Len(trace) :
                   (/\ trace[j + 1].e = "exec"
                    /\ trace[j + 1].kind = "VariableDeclarationStatement"
                    /\ \A m \in (j + 2)..(k - 1) : trace[m].e = "eval"
                    /\ trace[k].e = "declare")
                   => heap.envs[trace[k].env].outerScope = 0

\* C28: Assignment never creates a binding.  After evaluating any assignment to an identifier
\* (resolved or unresolved), the set of names bound in each environment, the global one
\* included, is the same as before the assignment; when the assignment succeeds only the
\* value of an already existing binding has changed.
C28_NoBindingCreated ==
    \A i \in 1..Len(trace) :
        trace[i].e = "set" =>
            LET before == trace[i].envs
                after  == trace[AssignedAfter(i)].envs
            IN  /\ Len(after) = Len(before)
                /\ \A k \in 1..Len(before) :
                       DOMAIN after[k].declarations = DOMAIN before[k].declarations

\* the index of the EOF token, the last of the tokens
EOFIndex == Len(tokens) - 1

\* C29: Parser termination and cursor bound.  For every finite token sequence whose only EOF
\* token is its last element, parse() terminates, each iteration of its main loop and of
\* sync() strictly advances the cursor unless it stops at EOF, and the cursor index never
\* becomes negative nor exceeds the index of the EOF token.  (Termination is the variant
\* EOFIndex - pcur: every iteration of the loop makes it smaller and it is never negative;
\* the loop is left as soon as the cursor is at the EOF token.)
C29_ParserTermination ==
    [][pc = "parse"
       => /\ 0 <= pcur /\ pcur <= EOFIndex
          /\ 0 <= pcur' /\ pcur' <= EOFIndex
          /\ ~Parser_isEOF(pcur) => (pc' = "parse" /\ pcur' > pcur)
          /\ Parser_isEOF(pcur) => (ParseReturned' /\ pcur' = pcur)
          /\ \A c \in 0..EOFIndex :
                 /\ Parser_sync(c) <= EOFIndex
                 /\ ~Parser_isEOF(c) => Parser_sync(c) > c
                 /\ Parser_isEOF(c) => Parser_sync(c) = c]_vars

\* parse() has returned with the cursor at the EOF token after sync() ran into it: the last
\* statement of the script raised the error and no ; or } follows
C29_Witness ==
    /\ ParseReturned /\ hasError /\ pcur = EOFIndex
    /\ statements # <<>>
    /\ EOFIndex >= 1
    /\ tokenAt(EOFIndex - 1).type \notin {";", "}"}

\* C30: Resolver scope-stack discipline.  Resolving any statement that completes without
\* raising leaves the scope stack with the same depth and the same scope objects as before
\* that statement (every push for a block, function or class is matched by one pop), pop and
\* peek are never applied to an empty stack, the stack is empty when resolve() returns, and
\* every hops value recorded satisfies 0 <= hops < the stack depth at the reference.
C30_ScopeDiscipline ==
    /\ \A k \in 1..Len(scopes.visits) :
           /\ Len(scopes.visits[k].after.stack) = Len(scopes.visits[k].before.stack)
           /\ scopes.visits[k].after.ids = scopes.visits[k].before.ids
    /\ \A k \in 1..Len(scopes.uses) : scopes.uses[k].depth > 0
    /\ scopes.returned => (scopes.stack = <<>> /\ scopes.ids = <<>>)
    /\ \A k \in 1..Len(resolutions) :
           resolutions[k].depth # -1
           => (0 <= resolutions[k].depth /\ resolutions[k].depth < Len(resolutions[k].stack))

\* resolve() has returned after resolving, inside open scopes, a block, a function and a
\* class, and after recording hops of one or more
C30_Witness ==
    /\ scopes.returned
    /\ \A kind \in {"BlockStatement", "FunctionDeclarationStatement",
                    "ClassDeclarationStatement"} :
           \E k \in 1..Len(scopes.visits) :
               scopes.visits[k].kind = kind /\ scopes.visits[k].before.ids # <<>>
    /\ \E k \in 1..Len(scopes.uses) : scopes.uses[k].op = "pop"
    /\ \E k \in 1..Len(resolutions) : resolutions[k].depth >= 1

=============================================================================
